---------------------------- MODULE Spec2Model ----------------------------
(***************************************************************************)
(* Payment settlement engine of plebchat-site.                             *)
(*                                                                         *)
(*   - the validate-then-redeem conversation graph  (agent/.../graph.py)   *)
(*   - the redeem-before-call conversation graph    (agents/.../graph.py)  *)
(*   - the wallet service CashuService              (backend/.../cashu.py) *)
(*                                                                         *)
(* The mint and the wallet library (nutshell) are external: a swap is one  *)
(* atomic step at the mint, whose outcome the mint decides.                *)
(***************************************************************************)
EXTENDS Integers, Sequences, FiniteSets, TLC

(***************************************************************************)
(* Bounds of the model.                                                    *)
(***************************************************************************)
\* the LLM asks for client-side tools at most this many times in one run
MaxToolRounds == 2
\* number of conversation runs of the redeem-before-call graph
NumRuns == 2
\* number of concurrent callers of each wallet operation
NumCallers == 2
\* number of cycles of the payout loop
MaxCycles == 2
\* calls of start_payout_task and stop_payout_task in a row
MaxCalls == 5
\* times one Authorization header is presented again
MaxReplays == 2

(***************************************************************************)
(* Tokens.  A token string is described by what the code looks at: how it  *)
(* starts, whether the rest is base64url, how many bytes it decodes to,    *)
(* whether the wallet library can deserialize it into proofs, the mint it  *)
(* declares and the sum of its proofs.                                     *)
(***************************************************************************)
Mk(text, b64, declen, parses, mint, amount) ==
    [text |-> text, b64 |-> b64, declen |-> declen, parses |-> parses,
     mint |-> mint, amount |-> amount]

\* Python None in a state field that otherwise holds a token string
NoneTok == Mk("<None>", FALSE, 0, FALSE, "", 0)
EmptyTok == Mk("", FALSE, 0, FALSE, "", 0)
DebugTok == Mk("debug", FALSE, 0, FALSE, "", 0)
CashuDebugTok == Mk("cashu_debug_1", FALSE, 0, FALSE, "", 0)

PRIMARY_MINT == "https://mint.minibits.cash/Bitcoin"
OTHER_MINT == "https://untrusted.example"

\* sums of proofs carried by the well-formed tokens of the model
Amounts == {1, 10, 50}

\* strings that do not deserialize: wrong prefix, bad base64, too short
MalformedToks ==
    { Mk("lnbc1", TRUE, 12, FALSE, "", 0),
      Mk("cashuA", FALSE, 0, FALSE, "", 0),
      Mk("cashuA", TRUE, 9, FALSE, "", 0),
      Mk("cashuB", TRUE, 12, FALSE, "", 0) }

\* tokens the wallet library deserializes into a non-empty list of proofs
GoodToks ==
    { Mk(p, TRUE, 12, TRUE, m, a) :
        p \in {"cashuA", "cashuB"}, m \in {PRIMARY_MINT, OTHER_MINT}, a \in Amounts }

RealToks == MalformedToks \cup GoodToks
TokenStrings == {EmptyTok, DebugTok, CashuDebugTok} \cup RealToks

\* the payment field of a request: absent, or a PaymentInfo with a token
NoPayment == [present |-> FALSE, ecash_token |-> NoneTok]
Payments == {NoPayment} \cup { [present |-> TRUE, ecash_token |-> t] : t \in TokenStrings }

\* truthiness of an optional string
Truthy(t) == t.text \notin {"<None>", ""}

\* a sentinel test that knows the word "debug" only
IsDebugSentinelExact(t) == t.text = "debug"

\* token.startswith("cashu_debug_") or token == "debug"
IsDebugSentinel(t) == t.text \in {"cashu_debug_1", "debug"}

\* a free-mode test that looks for the payload only
IsFreeModeNoPayload(p) == ~p.present

\* not payment or not payment.get("ecash_token")
IsFreeMode(p) == ~p.present \/ ~Truthy(p.ecash_token)

\* a real token: the payload carries a token that is no debug sentinel
CarriesRealToken(p) == ~IsFreeMode(p) /\ ~IsDebugSentinel(p.ecash_token)

(***************************************************************************)
(* Messages of a conversation: only their kind matters.                    *)
(***************************************************************************)
HUMAN == "human"
AI_FINAL == "ai"
AI_TOOL_CALLS == "ai_tool_calls"
AI_ERROR == "ai_error"
TOOL == "tool"

\* hasattr(last_message, "tool_calls") and last_message.tool_calls
HasToolCalls(m) == m = AI_TOOL_CALLS

Last(s) == s[Len(s)]

VARIABLES
    \* ---- the mint (external) and the wallet's proof store ----
    mintSpent,          \* tokens whose proofs the mint has marked spent
    proofs,             \* proofs held by the wallet (wallet.proofs / database)
    \* ---- validate-then-redeem run (agent/src/plebchat/graph.py) ----
    a_pc,               \* node about to run
    a_payment,          \* state["payment"]
    a_validated,        \* state["payment_validated"]
    a_token,            \* state["payment_token"]
    a_refund,           \* state["refund"]
    a_messages,         \* state["messages"]
    a_log,              \* what the run did so far: <<node, event>> pairs
    a_interrupted,      \* the graph is paused before its next node
    \* ---- redeem-before-call runs (agents/src/plebchat/graph.py), per run ----
    DEBUG_MODE,         \* module constant read from PLEBCHAT_DEBUG_MODE
    s_pc,               \* node about to run
    s_payment,          \* state["payment"]
    s_validated,        \* state["payment_validated"]
    s_redeemed,         \* state["payment_redeemed"]
    s_refund,           \* state["refund"]
    s_refund_token,     \* state["refund_token"]
    s_error,            \* state["error"]
    s_messages,         \* state["messages"]
    s_log,              \* what the run did so far: <<node, event>> pairs
    \* ---- the wallet service (backend/src/services/cashu.py) ----
    initialized,        \* CashuService._initialized
    redemption_lock,    \* CashuService._redemption_lock: its holder, 0 if free
    call,               \* the calls in progress: operation, position, locals
    credits,            \* tokens credited to the wallet, in order
    issued,             \* proof sets put into withdrawal tokens, in order
    melted,             \* proof sets melted at the mint, in order
    \* ---- one call of verify_nip98_event (backend/src/auth/nip98.py) ----
    n_auth_header,      \* auth_header
    n_url,              \* url
    n_method,           \* method
    n_body,             \* body
    n_allowed_pubkeys,  \* allowed_pubkeys
    n_current_time,     \* int(time.time()) at the call
    n_result,           \* what the call came back with
    n_seen,             \* the calls made before with this header: time and result
    \* ---- one call of get_required_amount (agents/src/plebchat/graph.py) ----
    p_agent_id,         \* agent_id
    p_messages,         \* the messages is_first_message is computed from
    p_required,         \* the amount returned, -1 before the call
    \* ---- the payout scheduler (cashu.py _periodic_payout_loop) ----
    t_task,             \* CashuService._payout_task: "none", "running", "ended"
    t_threshold,        \* CashuService._payout_threshold
    t_log,              \* the cycles of the loop so far, one record each
    t_cancelled_at,     \* where the loop was when it was cancelled, "" if never
    \* ---- the payout task's handle (cashu.py start/stop_payout_task) ----
    k_payout_task,      \* CashuService._payout_task: a task's number, 0 for None
    k_loops,            \* the _periodic_payout_loop tasks that are alive
    k_cancel,           \* the tasks whose cancellation is requested
    k_stop_pc,          \* stop_payout_task: "idle", or "await" (line 253)
    k_log,              \* the calls made so far and what each did
    \* ---- the backend application (backend/src/main.py, routes/admin.py) ----
    m_words,            \* number of words of WALLET_MNEMONIC, 0 when unset
    m_admins,           \* get_admin_pubkeys(): the entries of ADMIN_NPUBS
    m_ln_address,       \* PAYOUT_LN_ADDRESS is set
    m_phase,            \* "starting", "initializing", "serving", "exited", "failed"
    h_req               \* the admin request handled in each slot of call

envVars == <<mintSpent, proofs>>
vtrVars == <<a_pc, a_payment, a_validated, a_token, a_refund, a_messages, a_log,
            a_interrupted>>
rbcVars == <<DEBUG_MODE, s_pc, s_payment, s_validated, s_redeemed, s_refund,
             s_refund_token, s_error, s_messages, s_log>>
walletVars == <<initialized, redemption_lock, call, credits, issued, melted>>
authVars == <<n_auth_header, n_url, n_method, n_body, n_allowed_pubkeys,
              n_current_time, n_result, n_seen>>
priceVars == <<p_agent_id, p_messages, p_required>>
taskVars == <<k_payout_task, k_loops, k_cancel, k_stop_pc, k_log>>
schedVars == <<t_task, t_threshold, t_log, t_cancelled_at, taskVars>>
appVars == <<m_words, m_admins, m_ln_address, m_phase, h_req>>
vars == <<envVars, vtrVars, rbcVars, walletVars, authVars, priceVars, schedVars,
          appVars>>

(***************************************************************************)
(* The wallet's proofs.  Redeeming a token gives the wallet one new proof  *)
(* worth the token; a proof is known by the token it came from.            *)
(***************************************************************************)
ProofOf(t) == [src |-> t, amount |-> t.amount, reserved |-> FALSE]

RECURSIVE SumAmounts(_)
SumAmounts(S) ==
    IF S = {} THEN 0
    ELSE LET x == CHOOSE y \in S : TRUE IN x.amount + SumAmounts(S \ {x})

\* CashuService.balance: wallet.available_balance, reserved proofs excluded
Balance(ps) == SumAmounts({p \in ps : ~p.reserved})

\* CashuService._trusted_mints with TRUSTED_MINTS unset: the primary mint
TrustedMints == {PRIMARY_MINT}

\* a validate_token_format that accepts a token of any mint
BackendValidateTokenFormatAnyMint(t) ==
    /\ Truthy(t)
    /\ t.text \in {"cashuA", "cashuB"}
    /\ t.parses

\* CashuService.validate_token_format(token, check_mint=True)
BackendValidateTokenFormat(t) ==
    /\ Truthy(t)
    /\ t.text \in {"cashuA", "cashuB"}
    /\ t.parses
    /\ (t.mint # "" => t.mint \in TrustedMints)

(***************************************************************************)
(* POST /receive as the graph sees it.  reply is what comes back (an HTTP  *)
(* status and the success flag, or an exception in the client), swapped    *)
(* tells whether the mint exchanged the token's proofs.  The wallet can    *)
(* only swap a token it accepts and the mint has not seen spent.           *)
(***************************************************************************)
ReceiveReplies(t, spent) ==
    LET canSwap == BackendValidateTokenFormat(t) /\ t \notin spent
        Reply(st, ok, sw, cr) ==
            [status |-> st, success |-> ok, swapped |-> sw, credited |-> cr]
        \* the wallet refused, the server failed, or the request never got through
        refused == { Reply(200, FALSE, FALSE, FALSE),
                     Reply(500, FALSE, FALSE, FALSE),
                     Reply(0, FALSE, FALSE, FALSE) }
        \* the mint swapped: reported as success, lost on the way back from the
        \* mint, or completed after the client had given up waiting
        swappedReplies == { Reply(200, TRUE, TRUE, TRUE),
                            Reply(200, FALSE, TRUE, FALSE),
                            Reply(0, FALSE, TRUE, FALSE),
                            Reply(0, FALSE, TRUE, TRUE) }
    IN IF canSwap THEN refused \cup swappedReplies ELSE refused

\* the wallet's answer to a /receive call, as it goes into the run's record
ReceiveEvent(reply) ==
    IF reply.status = 200 /\ reply.success THEN "receive_ok" ELSE "receive_failed"

\* what a /receive call leaves behind at the mint and in the wallet
AfterReceive(t, reply) ==
    /\ mintSpent' = IF reply.swapped THEN mintSpent \cup {t} ELSE mintSpent
    /\ proofs' = IF reply.credited THEN proofs \cup {ProofOf(t)} ELSE proofs
    /\ credits' = IF reply.credited THEN Append(credits, t) ELSE credits

(***************************************************************************)
(* Validate-then-redeem graph: agent/src/plebchat/graph.py                 *)
(***************************************************************************)
\* validate_token_format: prefix, base64url, at least 10 decoded bytes
A_validate_token_format(t) ==
    /\ t.text \in {"cashuA", "cashuB"}
    /\ t.b64
    /\ t.declen >= 10

\* validate_token_state: the format check and nothing else
A_validate_token_state(t) == A_validate_token_format(t)

\* redeem_token_to_wallet: True only for a 200 reply with success
A_redeem_result(reply) == reply.status = 200 /\ reply.success

\* route_after_validation
A_route_after_validation(validated) == IF validated THEN "agent" ELSE "__end__"

\* a should_continue that forgets the pending tool calls
A_should_continue_no_tools(messages) == "finalize"

\* should_continue
A_should_continue(messages) ==
    IF messages = <<>> THEN "finalize"
    ELSE IF HasToolCalls(Last(messages)) THEN "tools"
    ELSE "finalize"

\* number of times the LLM asked for tools in this conversation
ToolRounds(messages) == Len(SelectSeq(messages, HasToolCalls))

\* edge __start__ -> validate_payment
VtrStart ==
    /\ a_pc = "__start__"
    /\ a_pc' = "validate_payment"
    /\ UNCHANGED <<a_payment, a_validated, a_token, a_refund, a_messages, a_log,
                   a_interrupted>>
    /\ UNCHANGED <<envVars, rbcVars, authVars, priceVars, schedVars, appVars, walletVars>>

\* validate_payment_node, then route_after_validation
VtrValidatePayment ==
    /\ a_pc = "validate_payment"
    /\ LET token == a_payment.ecash_token
           out == IF IsFreeMode(a_payment) \/ IsDebugSentinel(token)
                    THEN [validated |-> TRUE, token |-> NoneTok, refund |-> FALSE]
                  ELSE IF ~A_validate_token_state(token)
                    THEN [validated |-> FALSE, token |-> NoneTok, refund |-> TRUE]
                  ELSE [validated |-> TRUE, token |-> token, refund |-> FALSE]
       IN /\ a_validated' = out.validated
          /\ a_token' = out.token
          /\ a_refund' = out.refund
          /\ a_pc' = A_route_after_validation(out.validated)
    /\ a_log' = a_log
    /\ UNCHANGED <<a_payment, a_messages, a_interrupted>>
    /\ UNCHANGED <<envVars, rbcVars, authVars, priceVars, schedVars, appVars, walletVars>>

\* a graph compiled without interrupts
InterruptBeforeNone == {}

\* builder.compile(interrupt_before=["tools"])
InterruptBefore == {"tools"}

\* agent_node, then should_continue; the graph pauses before "tools"
VtrAgent ==
    /\ a_pc = "agent"
    /\ \/ /\ ~a_validated
          /\ a_messages' = Append(a_messages, AI_ERROR)
          /\ a_refund' = TRUE
          /\ a_log' = a_log
       \/ /\ a_validated
          /\ \E outcome \in {AI_FINAL, AI_TOOL_CALLS, AI_ERROR} :
               /\ outcome = AI_TOOL_CALLS => ToolRounds(a_messages) < MaxToolRounds
               /\ a_messages' = Append(a_messages, outcome)
               /\ a_refund' = IF outcome = AI_ERROR THEN TRUE ELSE a_refund
               /\ a_log' = Append(a_log, <<"agent",
                                IF outcome = AI_ERROR THEN "llm_error" ELSE "llm_ok">>)
    /\ a_pc' = A_should_continue(a_messages')
    /\ a_interrupted' = (a_pc' \in InterruptBefore)
    /\ UNCHANGED <<a_payment, a_validated, a_token>>
    /\ UNCHANGED <<envVars, rbcVars, authVars, priceVars, schedVars, appVars, walletVars>>

\* an external actor resumes the paused graph
VtrResume ==
    /\ a_interrupted
    /\ a_interrupted' = FALSE
    /\ UNCHANGED <<a_pc, a_payment, a_validated, a_token, a_refund, a_messages, a_log>>
    /\ UNCHANGED <<envVars, rbcVars, authVars, priceVars, schedVars, appVars, walletVars>>

\* the tools node runs in the resumed graph, edge tools -> agent
VtrTools ==
    /\ a_pc = "tools"
    /\ ~a_interrupted
    /\ a_messages' = Append(a_messages, TOOL)
    /\ a_pc' = "agent"
    /\ UNCHANGED <<a_payment, a_validated, a_token, a_refund, a_log, a_interrupted>>
    /\ UNCHANGED <<envVars, rbcVars, authVars, priceVars, schedVars, appVars, walletVars>>

\* a finalize_node that takes the answer back when the redemption fails
VtrFinalizeRevertsAnswer ==
    /\ a_pc = "finalize"
    /\ \/ /\ Truthy(a_token)
          /\ \E reply \in ReceiveReplies(a_token, mintSpent) :
               /\ AfterReceive(a_token, reply)
               /\ a_log' = Append(a_log, <<"finalize", ReceiveEvent(reply)>>)
       \/ /\ ~Truthy(a_token)
          /\ a_log' = a_log
          /\ UNCHANGED <<envVars, credits>>
    /\ a_refund' = FALSE
    /\ a_pc' = "__end__"
    /\ a_messages' = IF a_log' # a_log /\ Last(a_log')[2] = "receive_failed"
                       THEN SubSeq(a_messages, 1, Len(a_messages) - 1)
                       ELSE a_messages
    /\ UNCHANGED <<a_payment, a_validated, a_token, a_interrupted>>
    /\ UNCHANGED <<rbcVars, authVars, priceVars, schedVars, appVars, initialized, redemption_lock, call, issued, melted>>

\* finalize_node, edge finalize -> END
VtrFinalize ==
    /\ a_pc = "finalize"
    /\ \/ /\ Truthy(a_token)
          /\ \E reply \in ReceiveReplies(a_token, mintSpent) :
               /\ AfterReceive(a_token, reply)
               /\ a_log' = Append(a_log, <<"finalize", ReceiveEvent(reply)>>)
       \/ /\ ~Truthy(a_token)
          /\ a_log' = a_log
          /\ UNCHANGED <<envVars, credits>>
    /\ a_refund' = FALSE
    /\ a_pc' = "__end__"
    /\ UNCHANGED <<a_payment, a_validated, a_token, a_messages, a_interrupted>>
    /\ UNCHANGED <<rbcVars, authVars, priceVars, schedVars, appVars, initialized, redemption_lock, call, issued, melted>>

VtrNext ==
    VtrStart \/ VtrValidatePayment \/ VtrAgent \/ VtrResume \/ VtrTools \/ VtrFinalize


(***************************************************************************)
(* Redeem-before-call graph: agents/src/plebchat/graph.py                  *)
(***************************************************************************)
Runs == 1..NumRuns

DEBUG_MODE_COST == 1

AGENT_PRICING ==
    [plebchat        |-> [first |-> 50,  additional |-> 10],
     deep_research   |-> [first |-> 150, additional |-> 200],
     socratic_coach  |-> [first |-> 50,  additional |-> 0],
     tldr_summarizer |-> [first |-> 150, additional |-> 200],
     nsfw            |-> [first |-> 70,  additional |-> 20]]

DEFAULT_PRICING == [first |-> 50, additional |-> 10]

\* a pricing function that looks debug mode up only for agents without a
\* table entry
get_required_amount_table_first(debug_mode, agent_id, is_first_message) ==
    LET pricing == IF agent_id \in DOMAIN AGENT_PRICING
                     THEN AGENT_PRICING[agent_id] ELSE DEFAULT_PRICING
    IN IF debug_mode /\ agent_id \notin DOMAIN AGENT_PRICING THEN DEBUG_MODE_COST
       ELSE IF is_first_message THEN pricing.first ELSE pricing.additional

get_required_amount(debug_mode, agent_id, is_first_message) ==
    IF debug_mode THEN DEBUG_MODE_COST
    ELSE LET pricing == IF agent_id \in DOMAIN AGENT_PRICING
                          THEN AGENT_PRICING[agent_id] ELSE DEFAULT_PRICING
         IN IF is_first_message THEN pricing.first ELSE pricing.additional

IsHuman(m) == m = HUMAN

\* len([m for m in messages if isinstance(m, HumanMessage)]) <= 1
is_first_message(messages) == Len(SelectSeq(messages, IsHuman)) <= 1

\* agent ids: the five of the table and two that the table does not hold
AgentIds == DOMAIN AGENT_PRICING \cup {"unknown_agent", ""}

\* conversations of up to three messages
PriceMessages ==
    UNION { [1..n -> {HUMAN, AI_FINAL}] : n \in 0..3 }

\* one call of get_required_amount, for a message of a conversation as
\* validate_payment_node counts it (line 301)
PriceCall(agent_id, messages) ==
    /\ p_required = -1
    /\ p_agent_id' = agent_id
    /\ p_messages' = messages
    /\ p_required' = get_required_amount(DEBUG_MODE, agent_id, is_first_message(messages))
    /\ UNCHANGED <<envVars, vtrVars, rbcVars, walletVars, authVars, schedVars, appVars>>

PriceNext == \E agent_id \in AgentIds, messages \in PriceMessages :
                PriceCall(agent_id, messages)

\* get_required_amount has not been called
PriceIdle ==
    /\ p_agent_id = "plebchat"
    /\ p_messages = <<>>
    /\ p_required = -1

(***************************************************************************)
(* POST /check as the graph sees it (routes/wallet.py check_token):        *)
(* status 0 is a timeout or transport error in the client.  The spend      *)
(* state comes from the mint; check_token_spent answers spent when the     *)
(* query fails.                                                            *)
(***************************************************************************)
CheckReplies(t, spent) ==
    LET Reply(st, v, sp, am) == [status |-> st, valid |-> v, spent |-> sp, amount |-> am]
        failed == { Reply(500, FALSE, FALSE, 0), Reply(0, FALSE, FALSE, 0) }
    IN IF ~BackendValidateTokenFormat(t)
         THEN failed \cup { Reply(200, FALSE, FALSE, 0) }
         ELSE failed \cup { Reply(200, TRUE, sp, t.amount) : sp \in {t \in spent, TRUE} }

\* the wallet's answer to a /check call, as it goes into the run's record:
\* the token passed when it is valid, unspent and worth the required amount
CheckEvent(reply, required_amount) ==
    IF /\ reply.status = 200
       /\ reply.valid
       /\ ~reply.spent
       /\ reply.amount >= required_amount
    THEN "check_ok" ELSE "check_failed"

\* a validate_token_with_backend that forgets the spend state
S_validate_ignoring_spent(reply, required_amount) ==
    IF reply.status # 200 THEN [is_valid |-> FALSE, actual_amount |-> 0]
    ELSE IF ~reply.valid THEN [is_valid |-> FALSE, actual_amount |-> 0]
    ELSE IF reply.amount < required_amount
      THEN [is_valid |-> FALSE, actual_amount |-> reply.amount]
    ELSE [is_valid |-> TRUE, actual_amount |-> reply.amount]

\* a validate_token_with_backend that forgets the price
S_validate_ignoring_amount(reply, required_amount) ==
    IF reply.status # 200 THEN [is_valid |-> FALSE, actual_amount |-> 0]
    ELSE IF ~reply.valid THEN [is_valid |-> FALSE, actual_amount |-> 0]
    ELSE IF reply.spent THEN [is_valid |-> FALSE, actual_amount |-> 0]
    ELSE [is_valid |-> TRUE, actual_amount |-> reply.amount]

\* validate_token_with_backend: (is_valid, actual_amount)
S_validate_token_with_backend(reply, required_amount) ==
    IF reply.status # 200 THEN [is_valid |-> FALSE, actual_amount |-> 0]
    ELSE IF ~reply.valid THEN [is_valid |-> FALSE, actual_amount |-> 0]
    ELSE IF reply.spent THEN [is_valid |-> FALSE, actual_amount |-> 0]
    ELSE IF reply.amount < required_amount
      THEN [is_valid |-> FALSE, actual_amount |-> reply.amount]
    ELSE [is_valid |-> TRUE, actual_amount |-> reply.amount]

\* a redeem_token_to_wallet that takes any 200 reply for a redemption
S_redeem_any_200(reply) == reply.status = 200

\* a redeem_token_to_wallet that fails open: an exception or a status other
\* than 200 counts as redeemed
S_redeem_fail_open(reply) == reply.status # 200 \/ reply.success

\* redeem_token_to_wallet
S_redeem_result(reply) == reply.status = 200 /\ reply.success

\* route_after_validation
S_route_after_validation(validated) == IF validated THEN "agent" ELSE "__end__"

\* the dict returned by validate_payment_node, applied to the state of run r
RbcSetPayment(r, validated, redeemed, refund, refund_token, error) ==
    /\ s_validated' = [s_validated EXCEPT ![r] = validated]
    /\ s_redeemed' = [s_redeemed EXCEPT ![r] = redeemed]
    /\ s_refund' = [s_refund EXCEPT ![r] = refund]
    /\ s_refund_token' = [s_refund_token EXCEPT ![r] = refund_token]
    /\ s_error' = [s_error EXCEPT ![r] = error]
    /\ s_pc' = [s_pc EXCEPT ![r] = S_route_after_validation(validated)]

RbcLog(r, node, event) == s_log' = [s_log EXCEPT ![r] = Append(@, <<node, event>>)]

\* edge __start__ -> validate_payment
RbcStart(r) ==
    /\ s_pc[r] = "__start__"
    /\ s_pc' = [s_pc EXCEPT ![r] = "validate_payment"]
    /\ UNCHANGED <<DEBUG_MODE, s_payment, s_validated, s_redeemed, s_refund,
                   s_refund_token, s_error, s_messages, s_log>>
    /\ UNCHANGED <<envVars, vtrVars, authVars, priceVars, schedVars, appVars, walletVars>>

\* validate_payment_node up to the reply of /check (step 1); the node is
\* suspended in the request while other runs proceed
RbcValidateCheck(r) ==
    /\ s_pc[r] = "validate_payment"
    /\ LET token == s_payment[r].ecash_token
           required_amount ==
               get_required_amount(DEBUG_MODE, "plebchat", is_first_message(s_messages[r]))
       IN \/ /\ IsFreeMode(s_payment[r]) \/ IsDebugSentinel(token)
             /\ RbcSetPayment(r, TRUE, FALSE, FALSE, NoneTok, "")
             /\ s_log' = s_log
          \/ /\ ~IsFreeMode(s_payment[r]) /\ ~IsDebugSentinel(token)
             /\ \E reply \in CheckReplies(token, mintSpent) :
                  LET res == S_validate_token_with_backend(reply, required_amount) IN
                  /\ RbcLog(r, "validate_payment", CheckEvent(reply, required_amount))
                  /\ IF ~res.is_valid
                       THEN RbcSetPayment(r, FALSE, FALSE, TRUE, token,
                                          "Payment validation failed")
                       ELSE /\ s_pc' = [s_pc EXCEPT ![r] = "validate_payment.redeem"]
                            /\ UNCHANGED <<s_validated, s_redeemed, s_refund,
                                           s_refund_token, s_error>>
    /\ UNCHANGED <<DEBUG_MODE, s_payment, s_messages>>
    /\ UNCHANGED <<envVars, vtrVars, authVars, priceVars, schedVars, appVars, walletVars>>

\* validate_payment_node from the /receive request (step 2) to its return,
\* then route_after_validation
RbcValidateRedeem(r) ==
    /\ s_pc[r] = "validate_payment.redeem"
    /\ LET token == s_payment[r].ecash_token IN
       \E reply \in ReceiveReplies(token, mintSpent) :
          /\ AfterReceive(token, reply)
          /\ RbcLog(r, "validate_payment", ReceiveEvent(reply))
          /\ IF ~S_redeem_result(reply)
               THEN RbcSetPayment(r, FALSE, FALSE, TRUE, token,
                                  "Payment redemption failed")
               ELSE RbcSetPayment(r, TRUE, TRUE, FALSE, NoneTok, "")
    /\ UNCHANGED <<DEBUG_MODE, s_payment, s_messages>>
    /\ UNCHANGED <<vtrVars, authVars, priceVars, schedVars, appVars, initialized, redemption_lock, call, issued, melted>>

\* an agent_node that hands the token back when the LLM call fails
RbcAgentRefundsLlmError(r) ==
    /\ s_pc[r] = "agent"
    /\ \/ /\ ~s_validated[r]
          /\ s_messages' = [s_messages EXCEPT ![r] = Append(@, AI_ERROR)]
          /\ s_refund' = [s_refund EXCEPT ![r] = TRUE]
          /\ s_error' = [s_error EXCEPT ![r] =
                            IF @ # "" THEN @ ELSE "Payment validation failed"]
          /\ UNCHANGED <<s_refund_token, s_log>>
       \/ /\ s_validated[r]
          /\ \/ /\ s_messages' = [s_messages EXCEPT ![r] = Append(@, AI_FINAL)]
                /\ s_error' = [s_error EXCEPT ![r] = ""]
                /\ RbcLog(r, "agent", "llm_ok")
                /\ UNCHANGED <<s_refund, s_refund_token>>
             \/ /\ s_messages' = [s_messages EXCEPT ![r] = Append(@, AI_ERROR)]
                /\ s_refund' = [s_refund EXCEPT ![r] = TRUE]
                /\ s_refund_token' = [s_refund_token EXCEPT ![r] = s_payment[r].ecash_token]
                /\ s_error' = [s_error EXCEPT ![r] = "LLM error"]
                /\ RbcLog(r, "agent", "llm_error")
    /\ s_pc' = [s_pc EXCEPT ![r] = "finalize"]
    /\ UNCHANGED <<DEBUG_MODE, s_payment, s_validated, s_redeemed>>
    /\ UNCHANGED <<envVars, vtrVars, authVars, priceVars, schedVars, appVars, walletVars>>

\* agent_node, edge agent -> finalize
RbcAgent(r) ==
    /\ s_pc[r] = "agent"
    /\ \/ /\ ~s_validated[r]
          /\ s_messages' = [s_messages EXCEPT ![r] = Append(@, AI_ERROR)]
          /\ s_refund' = [s_refund EXCEPT ![r] = TRUE]
          /\ s_error' = [s_error EXCEPT ![r] =
                            IF @ # "" THEN @ ELSE "Payment validation failed"]
          /\ UNCHANGED <<s_refund_token, s_log>>
       \/ /\ s_validated[r]
          /\ \/ /\ s_messages' = [s_messages EXCEPT ![r] = Append(@, AI_FINAL)]
                /\ s_error' = [s_error EXCEPT ![r] = ""]
                /\ RbcLog(r, "agent", "llm_ok")
                /\ UNCHANGED <<s_refund, s_refund_token>>
             \/ /\ s_messages' = [s_messages EXCEPT ![r] = Append(@, AI_ERROR)]
                /\ s_refund' = [s_refund EXCEPT ![r] = FALSE]
                /\ s_refund_token' = [s_refund_token EXCEPT ![r] = NoneTok]
                /\ s_error' = [s_error EXCEPT ![r] = "LLM error"]
                /\ RbcLog(r, "agent", "llm_error")
    /\ s_pc' = [s_pc EXCEPT ![r] = "finalize"]
    /\ UNCHANGED <<DEBUG_MODE, s_payment, s_validated, s_redeemed>>
    /\ UNCHANGED <<envVars, vtrVars, authVars, priceVars, schedVars, appVars, walletVars>>

\* finalize_node, edge finalize -> END
RbcFinalize(r) ==
    /\ s_pc[r] = "finalize"
    /\ s_refund' = [s_refund EXCEPT ![r] = FALSE]
    /\ s_pc' = [s_pc EXCEPT ![r] = "__end__"]
    /\ UNCHANGED <<DEBUG_MODE, s_payment, s_validated, s_redeemed,
                   s_refund_token, s_error, s_messages, s_log>>
    /\ UNCHANGED <<envVars, vtrVars, authVars, priceVars, schedVars, appVars, walletVars>>

RbcNext ==
    \E r \in Runs :
        \/ RbcStart(r)
        \/ RbcValidateCheck(r)
        \/ RbcValidateRedeem(r)
        \/ RbcAgent(r)
        \/ RbcFinalize(r)

(***************************************************************************)
(* The wallet service: backend/src/services/cashu.py                       *)
(*                                                                         *)
(* Every call runs as a coroutine on one event loop: it runs without       *)
(* interruption up to its next await, where any other coroutine may run.   *)
(* An action below is the piece of a method from one await to the next.    *)
(***************************************************************************)
Callers == 1..NumCallers

\* proofs the wallet may hold when the service starts
SeedA == Mk("seed:a", TRUE, 0, FALSE, PRIMARY_MINT, 10)
SeedB == Mk("seed:b", TRUE, 0, FALSE, PRIMARY_MINT, 50)

\* tokens handed to receive_token
WalletToks ==
    { Mk("cashuA", TRUE, 12, TRUE, PRIMARY_MINT, 10),
      Mk("cashuA", TRUE, 12, TRUE, OTHER_MINT, 10),
      Mk("cashuB", TRUE, 12, FALSE, "", 0) }

\* amounts handed to generate_token
GenerateAmounts == {0, 10, 60}

\* amount of payout_to_lightning; NoAmount is None (the full balance)
NoAmount == -1
PayoutAmounts == {NoAmount, 2, 10}

\* minSendable / maxSendable a payee may declare, in millisats
PayeeLimits == { [min_sendable |-> 1000, max_sendable |-> 100000000],
                 [min_sendable |-> 20000, max_sendable |-> 100000000],
                 [min_sendable |-> 1000, max_sendable |-> 5000] }

\* fee reserve of a melt quote, in sats
FeeReserves == {0, 2}

\* what the wallet library raises when a swap fails
SWAP_CONFLICT == "outputs have already been signed before"
SWAP_SPENT == "Token already spent"
SWAP_INVALID == "invalid proofs"
SWAP_TRANSPORT == "connection timeout"

\* "already signed" in error_msg.lower()
ContainsAlreadySigned(msg) == msg = SWAP_CONFLICT
\* "spent" in error_msg.lower()
ContainsSpent(msg) == msg = SWAP_SPENT
\* "invalid" in error_msg.lower()
ContainsInvalid(msg) == msg = SWAP_INVALID

COUNTER_SYNC_ERROR == "Counter sync error - please try again or contact support"

TokenResult(success, amount, error) ==
    [success |-> success, amount |-> amount, error |-> error]
PayoutResult(success, amount_sent, fee_paid, error) ==
    [success |-> success, amount |-> amount_sent, fee_paid |-> fee_paid, error |-> error]
Pending == [success |-> FALSE, amount |-> 0, error |-> "<pending>"]

\* an error handler that reports a spent token as a redemption
RedeemFailureSpentIsSuccess(msg) ==
    IF ContainsAlreadySigned(msg) THEN TokenResult(FALSE, 0, COUNTER_SYNC_ERROR)
    ELSE IF ContainsSpent(msg) THEN TokenResult(TRUE, 0, "")
    ELSE IF ContainsInvalid(msg) THEN TokenResult(FALSE, 0, "Invalid token or proofs")
    ELSE TokenResult(FALSE, 0, "Redemption failed")

\* the failure returned by _redeem_token_internal for an error that leads to
\* no recovery (lines 446-458)
RedeemFailure(msg) ==
    IF ContainsAlreadySigned(msg) THEN TokenResult(FALSE, 0, COUNTER_SYNC_ERROR)
    ELSE IF ContainsSpent(msg) THEN TokenResult(FALSE, 0, "Token already spent")
    ELSE IF ContainsInvalid(msg) THEN TokenResult(FALSE, 0, "Invalid token or proofs")
    ELSE TokenResult(FALSE, 0, "Redemption failed")

\* a handler that starts a recovery on a retry as well
ShouldRecoverAlways(msg, is_retry) == ContainsAlreadySigned(msg)

\* a handler that starts a recovery after any failure of the first attempt
ShouldRecoverAnyError(msg, is_retry) == ~is_retry

\* lines 434-435: recovery is attempted for a conflict on the first attempt
ShouldRecover(msg, is_retry) == ContainsAlreadySigned(msg) /\ ~is_retry

\* a fee estimate that rounds the proportional part down
estimate_lightning_fee_floor(amount_sats) ==
    LET fee == (amount_sats * 10000) \div 1000000
    IN IF fee > 2 THEN fee ELSE 2

\* estimate_lightning_fee(amount_sats, fee_ppm=10000)
estimate_lightning_fee(amount_sats) ==
    LET fee == (amount_sats * 10000 + 999999) \div 1000000
    IN IF fee > 2 THEN fee ELSE 2

Unreserved(ps) == {p \in ps : ~p.reserved}
Srcs(ps) == {p.src : p \in ps}

\* wallet.select_to_send: unreserved proofs that cover the amount, none of
\* them superfluous
SelectToSend(ps, amount) ==
    { S \in SUBSET Unreserved(ps) :
        /\ SumAmounts(S) >= amount
        /\ \A p \in S : SumAmounts(S \ {p}) < amount }

\* wallet.set_reserved_for_send(send_proofs, reserved=True)
SetReserved(ps, srcs) ==
    { IF p.src \in srcs THEN [p EXCEPT !.reserved = TRUE] ELSE p : p \in ps }

\* what the mint answers to a swap of token t: success when unspent, the
\* spent error when spent, and at any time a conflict, another error, or a
\* swap whose answer is lost on the way back
SwapOutcomes(t, spent) ==
    (IF t \in spent THEN {SWAP_SPENT} ELSE {"ok", "lost"})
        \cup {SWAP_CONFLICT, SWAP_INVALID, SWAP_TRANSPORT}

\* no LNURL-pay data was fetched
NoPayData == [min_sendable |-> -1, max_sendable |-> -1]

NewCall == [op |-> "none", pc |-> "idle", token |-> NoneTok, amount |-> 0,
            is_retry |-> FALSE, send |-> {}, net |-> 0, needed |-> 0,
            attempts |-> <<>>, recoveries |-> 0, result |-> Pending,
            answer |-> [kind |-> "none", states |-> <<>>], spent |-> FALSE,
            before |-> 0, pay_data |-> NoPayData, invoice_msat |-> -1,
            recovered |-> <<>>]

Finish(c, result) ==
    call' = [call EXCEPT ![c].pc = "done", ![c].result = result]

\* CashuService.initialize
Initialize ==
    /\ ~initialized
    /\ initialized' = TRUE
    /\ UNCHANGED <<redemption_lock, call, credits, issued, melted>>
    /\ UNCHANGED <<envVars, vtrVars, rbcVars, authVars, priceVars, schedVars, appVars>>

\* receive_token up to the lock (lines 374-383)
RecvCall(c, t) ==
    /\ call[c].pc = "idle"
    /\ IF ~initialized
         THEN call' = [call EXCEPT ![c].op = "receive", ![c].token = t, ![c].pc = "done",
                          ![c].result = TokenResult(FALSE, 0, "Service not initialized")]
       ELSE IF ~BackendValidateTokenFormat(t)
         THEN call' = [call EXCEPT ![c].op = "receive", ![c].token = t, ![c].pc = "done",
                          ![c].result = TokenResult(FALSE, 0, "Invalid token")]
       ELSE call' = [call EXCEPT ![c].op = "receive", ![c].token = t, ![c].pc = "r_lock"]
    /\ UNCHANGED <<initialized, redemption_lock, credits, issued, melted>>
    /\ UNCHANGED <<envVars, vtrVars, rbcVars, authVars, priceVars, schedVars, appVars>>

\* async with self._redemption_lock (line 383)
RecvAcquire(c) ==
    /\ call[c].pc = "r_lock"
    /\ redemption_lock = 0
    /\ redemption_lock' = c
    /\ call' = [call EXCEPT ![c].pc = "r_swap"]
    /\ UNCHANGED <<initialized, credits, issued, melted>>
    /\ UNCHANGED <<envVars, vtrVars, rbcVars, authVars, priceVars, schedVars, appVars>>

\* _redeem_token_internal: wallet.redeem and the handling of its failure
\* (lines 396-416 and 429-458)
RecvSwap(c) ==
    /\ call[c].pc = "r_swap"
    /\ LET t == call[c].token IN
       \E outcome \in SwapOutcomes(t, mintSpent) :
          LET msg == IF outcome = "lost" THEN SWAP_TRANSPORT ELSE outcome IN
          /\ mintSpent' = IF outcome \in {"ok", "lost"} THEN mintSpent \cup {t} ELSE mintSpent
          /\ proofs' = IF outcome = "ok" THEN proofs \cup {ProofOf(t)} ELSE proofs
          /\ credits' = IF outcome = "ok" THEN Append(credits, t) ELSE credits
          /\ IF outcome = "ok"
               THEN /\ call' = [call EXCEPT ![c].pc = "r_reload", ![c].attempts = Append(@, outcome)]
                    /\ UNCHANGED redemption_lock
             ELSE IF ShouldRecover(msg, call[c].is_retry)
               THEN /\ call' = [call EXCEPT ![c].pc = "r_recovery", ![c].attempts = Append(@, outcome)]
                    /\ UNCHANGED redemption_lock
             ELSE /\ call' = [call EXCEPT ![c].pc = "done", ![c].attempts = Append(@, outcome),
                                 ![c].result = RedeemFailure(msg)]
                  /\ redemption_lock' = 0
    /\ UNCHANGED <<initialized, issued, melted>>
    /\ UNCHANGED <<vtrVars, rbcVars, authVars, priceVars, schedVars, appVars>>

\* _redeem_token_internal after the swap: load_proofs, the result, and the
\* release of the lock (lines 417-427)
RecvReload(c) ==
    /\ call[c].pc = "r_reload"
    /\ Finish(c, TokenResult(TRUE, call[c].token.amount, ""))
    /\ redemption_lock' = 0
    /\ UNCHANGED <<initialized, credits, issued, melted>>
    /\ UNCHANGED <<envVars, vtrVars, rbcVars, authVars, priceVars, schedVars, appVars>>

\* how a run of _attempt_counter_recovery can go: the restore completes,
\* the wallet has no active keyset, or the restore raises
RecoveryOutcomes == {"restored", "no_keyset", "raised"}

\* a recovery that reports a raising restore as a success
attempt_counter_recovery_swallows(outcome) == outcome # "no_keyset"

\* the value _attempt_counter_recovery returns (lines 471-494)
attempt_counter_recovery(outcome) == outcome = "restored"

\* _attempt_counter_recovery and what follows it (lines 437-451, 460-494)
RecvRecovery(c) ==
    /\ call[c].pc = "r_recovery"
    /\ \E outcome \in RecoveryOutcomes :
         LET recovery_success == attempt_counter_recovery(outcome) IN
         IF recovery_success
           THEN /\ call' = [call EXCEPT ![c].pc = "r_swap", ![c].is_retry = TRUE,
                               ![c].recoveries = @ + 1,
                               ![c].recovered = Append(@, outcome)]
                /\ UNCHANGED redemption_lock
           ELSE /\ call' = [call EXCEPT ![c].pc = "done", ![c].recoveries = @ + 1,
                               ![c].recovered = Append(@, outcome),
                               ![c].result = TokenResult(FALSE, 0, COUNTER_SYNC_ERROR)]
                /\ redemption_lock' = 0
    /\ UNCHANGED <<initialized, credits, issued, melted>>
    /\ UNCHANGED <<envVars, vtrVars, rbcVars, authVars, priceVars, schedVars, appVars>>

\* self.balance: 0 while no wallet is loaded (lines 289-290)
ServiceBalance == IF initialized THEN Balance(proofs) ELSE 0

\* a generate_token without the check that the amount is positive
GenCallAnyAmount(c, amount) ==
    /\ call[c].pc = "idle"
    /\ IF ~initialized
         THEN call' = [call EXCEPT ![c].op = "generate", ![c].amount = amount,
                          ![c].before = ServiceBalance, ![c].pc = "done",
                          ![c].result = TokenResult(FALSE, 0, "Service not initialized")]
       ELSE IF amount > Balance(proofs)
         THEN call' = [call EXCEPT ![c].op = "generate", ![c].amount = amount,
                          ![c].before = ServiceBalance, ![c].pc = "done",
                          ![c].result = TokenResult(FALSE, 0, "Insufficient balance")]
       ELSE call' = [call EXCEPT ![c].op = "generate", ![c].amount = amount,
                          ![c].before = ServiceBalance, ![c].pc = "g_select"]
    /\ UNCHANGED <<initialized, redemption_lock, credits, issued, melted>>
    /\ UNCHANGED <<envVars, vtrVars, rbcVars, authVars, priceVars, schedVars, appVars>>

\* generate_token up to its first await (lines 506-517): the call as it
\* stands there, or as it ended before
GenStart(op, amount) ==
    LET Base == [NewCall EXCEPT !.op = op, !.amount = amount, !.before = ServiceBalance]
    IN IF ~initialized
         THEN [Base EXCEPT !.pc = "done",
                           !.result = TokenResult(FALSE, 0, "Service not initialized")]
       ELSE IF amount <= 0
         THEN [Base EXCEPT !.pc = "done",
                           !.result = TokenResult(FALSE, 0, "Amount must be positive")]
       ELSE IF amount > Balance(proofs)
         THEN [Base EXCEPT !.pc = "done",
                           !.result = TokenResult(FALSE, 0, "Insufficient balance")]
       ELSE [Base EXCEPT !.pc = "g_select"]

\* a call of generate_token
GenCall(c, amount) ==
    /\ call[c].pc = "idle"
    /\ call' = [call EXCEPT ![c] = GenStart("generate", amount)]
    /\ UNCHANGED <<initialized, redemption_lock, credits, issued, melted>>
    /\ UNCHANGED <<envVars, vtrVars, rbcVars, authVars, priceVars, schedVars, appVars>>

\* sweep_all up to the first await of generate_token(current_balance) (lines
\* 590-597, 506-517)
SweepStart ==
    LET current_balance == ServiceBalance
        Base == [NewCall EXCEPT !.op = "sweep", !.before = current_balance]
    IN IF ~initialized
         THEN [Base EXCEPT !.pc = "done",
                           !.result = TokenResult(FALSE, 0, "Service not initialized")]
       ELSE IF current_balance <= 0
         THEN [Base EXCEPT !.pc = "done",
                           !.result = TokenResult(FALSE, 0, "No funds to sweep")]
       ELSE GenStart("sweep", current_balance)

\* a call of sweep_all
SweepCall(c) ==
    /\ call[c].pc = "idle"
    /\ call' = [call EXCEPT ![c] = SweepStart]
    /\ UNCHANGED <<initialized, redemption_lock, credits, issued, melted>>
    /\ UNCHANGED <<envVars, vtrVars, rbcVars, authVars, priceVars, schedVars, appVars>>

\* generate_token: load_proofs, load_mint, select_to_send(set_reserved=False)
\* (lines 517-527); an amount no longer covered raises (lines 548-550)
GenSelect(c) ==
    /\ call[c].pc = "g_select"
    /\ IF SelectToSend(proofs, call[c].amount) = {}
         THEN Finish(c, TokenResult(FALSE, 0, "Token generation failed"))
         ELSE \E S \in SelectToSend(proofs, call[c].amount) :
                call' = [call EXCEPT ![c].pc = "g_reserve", ![c].send = Srcs(S)]
    /\ UNCHANGED <<initialized, redemption_lock, credits, issued, melted>>
    /\ UNCHANGED <<envVars, vtrVars, rbcVars, authVars, priceVars, schedVars, appVars>>

\* generate_token: serialize_proofs, set_reserved_for_send, return the token
\* (lines 529-546)
GenReserve(c) ==
    /\ call[c].pc = "g_reserve"
    /\ proofs' = SetReserved(proofs, call[c].send)
    /\ issued' = Append(issued, call[c].send)
    /\ Finish(c, TokenResult(TRUE, SumAmounts(call[c].send), ""))
    /\ UNCHANGED <<initialized, redemption_lock, credits, melted, mintSpent>>
    /\ UNCHANGED <<vtrVars, rbcVars, authVars, priceVars, schedVars, appVars>>

\* payout_to_lightning up to the lock (lines 616-642): the call as it stands
\* at the lock, or as it ended before
PayStart(amount) ==
    LET current_balance == Balance(proofs)
        payout_amount == IF amount # NoAmount THEN amount ELSE current_balance
        estimated_fee == estimate_lightning_fee(payout_amount)
        Fail(error) == [NewCall EXCEPT !.op = "payout", !.amount = payout_amount,
                                       !.pc = "done",
                                       !.result = PayoutResult(FALSE, 0, 0, error)]
    IN IF ~initialized THEN Fail("Service not initialized")
       ELSE IF payout_amount <= 0 THEN Fail("No funds to payout")
       ELSE IF payout_amount > current_balance THEN Fail("Insufficient balance")
       ELSE IF payout_amount <= estimated_fee THEN Fail("Amount too small")
       ELSE [NewCall EXCEPT !.op = "payout", !.amount = payout_amount,
                            !.net = payout_amount - estimated_fee, !.pc = "p_lock"]

\* a call of payout_to_lightning by an administrator
PayCall(c, amount) ==
    /\ call[c].pc = "idle"
    /\ call' = [call EXCEPT ![c] = PayStart(amount)]
    /\ UNCHANGED <<initialized, redemption_lock, credits, issued, melted>>
    /\ UNCHANGED <<envVars, vtrVars, rbcVars, authVars, priceVars, schedVars, appVars>>

\* async with self._redemption_lock (line 642)
PayAcquire(c) ==
    /\ call[c].pc = "p_lock"
    /\ redemption_lock = 0
    /\ redemption_lock' = c
    /\ call' = [call EXCEPT ![c].pc = "p_negotiate"]
    /\ UNCHANGED <<initialized, credits, issued, melted>>
    /\ UNCHANGED <<envVars, vtrVars, rbcVars, authVars, priceVars, schedVars, appVars>>

\* _payout_internal: LNURL data, limits, invoice, melt quote (lines 661-695);
\* the call keeps the payee's limits and the amount it asked an invoice for
PayNegotiate(c) ==
    /\ call[c].pc = "p_negotiate"
    /\ LET net_amount_msat == call[c].net * 1000
           Fail(pay_data, invoice_msat, error) ==
               /\ call' = [call EXCEPT ![c].pc = "done",
                                       ![c].pay_data = pay_data,
                                       ![c].invoice_msat = invoice_msat,
                                       ![c].result = PayoutResult(FALSE, 0, 0, error)]
               /\ redemption_lock' = 0
       IN \/ Fail(NoPayData, -1, "LNURL error")
          \/ \E pay_data \in PayeeLimits :
               IF net_amount_msat < pay_data.min_sendable
                 THEN Fail(pay_data, -1, "below minimum")
               ELSE IF net_amount_msat > pay_data.max_sendable
                 THEN Fail(pay_data, -1, "above maximum")
               ELSE \/ Fail(pay_data, net_amount_msat, "Failed to get invoice")
                    \/ Fail(pay_data, net_amount_msat, "melt quote failed")
                    \/ \E fee_reserve \in FeeReserves :
                         /\ call' = [call EXCEPT ![c].pc = "p_select",
                                        ![c].pay_data = pay_data,
                                        ![c].invoice_msat = net_amount_msat,
                                        ![c].needed = call[c].net + fee_reserve]
                         /\ UNCHANGED redemption_lock
    /\ UNCHANGED <<initialized, credits, issued, melted>>
    /\ UNCHANGED <<envVars, vtrVars, rbcVars, authVars, priceVars, schedVars, appVars>>

\* sum_proofs(send_proofs), for proofs known by their sources
SendValue(send) == SumAmounts({ [src |-> x, amount |-> x.amount] : x \in send })

\* a fee report that gives the fee reserve of the quote
actual_fee_is_reserve(send, net_amount, total_needed) == total_needed - net_amount

\* line 727: actual_fee = sum_proofs(send_proofs) - net_amount
actual_fee(send, net_amount, total_needed) == SendValue(send) - net_amount

\* _payout_internal: load_proofs, balance check, select_to_send with
\* set_reserved=True (lines 697-712); the call keeps the balance it read
PaySelect(c) ==
    /\ call[c].pc = "p_select"
    /\ IF call[c].needed > Balance(proofs) \/ SelectToSend(proofs, call[c].needed) = {}
         THEN /\ call' = [call EXCEPT ![c].pc = "done", ![c].before = Balance(proofs),
                             ![c].result = PayoutResult(FALSE, 0, 0,
                                 "Insufficient balance for payment + fees")]
              /\ redemption_lock' = 0
              /\ UNCHANGED proofs
         ELSE \E S \in SelectToSend(proofs, call[c].needed) :
                /\ call' = [call EXCEPT ![c].pc = "p_melt", ![c].send = Srcs(S),
                                        ![c].before = Balance(proofs)]
                /\ proofs' = SetReserved(proofs, Srcs(S))
                /\ UNCHANGED redemption_lock
    /\ UNCHANGED <<initialized, credits, issued, melted, mintSpent>>
    /\ UNCHANGED <<vtrVars, rbcVars, authVars, priceVars, schedVars, appVars>>

\* _payout_internal: wallet.melt (lines 714-721); a failed melt raises
\* (lines 738-740)
PayMelt(c) ==
    /\ call[c].pc = "p_melt"
    /\ \/ /\ proofs' = {p \in proofs : p.src \notin call[c].send}
          /\ melted' = Append(melted, call[c].send)
          /\ call' = [call EXCEPT ![c].pc = "p_reload"]
          /\ UNCHANGED redemption_lock
       \/ /\ Finish(c, PayoutResult(FALSE, 0, 0, "melt failed"))
          /\ redemption_lock' = 0
          /\ UNCHANGED <<proofs, melted>>
    /\ UNCHANGED <<initialized, credits, issued, mintSpent>>
    /\ UNCHANGED <<vtrVars, rbcVars, authVars, priceVars, schedVars, appVars>>

\* _payout_internal after the melt: load_proofs, the result, and the release
\* of the lock (lines 723-736)
PayReload(c) ==
    /\ call[c].pc = "p_reload"
    /\ Finish(c, PayoutResult(TRUE, call[c].net,
                               actual_fee(call[c].send, call[c].net, call[c].needed), ""))
    /\ redemption_lock' = 0
    /\ UNCHANGED <<initialized, credits, issued, melted>>
    /\ UNCHANGED <<envVars, vtrVars, rbcVars, authVars, priceVars, schedVars, appVars>>

WalletNext ==
    \/ Initialize
    \/ \E c \in Callers :
        \/ \E t \in WalletToks : RecvCall(c, t)
        \/ RecvAcquire(c)
        \/ RecvSwap(c)
        \/ RecvReload(c)
        \/ RecvRecovery(c)
        \/ \E amount \in GenerateAmounts : GenCall(c, amount)
        \/ SweepCall(c)
        \/ GenSelect(c)
        \/ GenReserve(c)
        \/ \E amount \in PayoutAmounts : PayCall(c, amount)
        \/ PayAcquire(c)
        \/ PayNegotiate(c)
        \/ PaySelect(c)
        \/ PayMelt(c)
        \/ PayReload(c)

\* payouts asked of a wallet that holds one proof: what the proof is worth,
\* and the amounts asked for
PayoutBalances == {2, 3, 10, 200, 201, 301}
PayoutRequests == {NoAmount, 2, 3, 200, 201}

PayoutSeed(amount) == Mk("seed:p", TRUE, 0, FALSE, PRIMARY_MINT, amount)

PayoutNext ==
    \E c \in Callers :
        \/ \E amount \in PayoutRequests : PayCall(c, amount)
        \/ PayAcquire(c)
        \/ PayNegotiate(c)
        \/ PaySelect(c)
        \/ PayMelt(c)
        \/ PayReload(c)

(***************************************************************************)
(* The payout scheduler: start_payout_task, stop_payout_task and           *)
(* _periodic_payout_loop (cashu.py 235-284).                               *)
(*                                                                         *)
(* The loop is one task.  The payout it makes runs in slot SCHED of call;  *)
(* while that slot is idle or done the loop is in asyncio.sleep.  The      *)
(* other slots belong to receive_token calls that run next to the loop.    *)
(* PAYOUT_LN_ADDRESS is configured (start_payout_task starts nothing       *)
(* without it).                                                            *)
(***************************************************************************)
SCHED == 1

\* PAYOUT_THRESHOLD_SATS
PayoutThresholds == {10, 60}

\* the loop is suspended in asyncio.sleep (line 264)
AtSleep == t_task = "running" /\ call[SCHED].pc \in {"idle", "done"}

\* how the cycle before this one ended
LastCycle ==
    IF t_log = <<>> THEN "start"
    ELSE IF Last(t_log).kind = "payout"
      THEN (IF call[SCHED].result.success THEN "success" ELSE "failure")
    ELSE Last(t_log).kind

Cycle(kind, balance) == [kind |-> kind, balance |-> balance, after |-> LastCycle]

\* start_payout_task (lines 235-246): the task is created and runs up to its
\* first await, the sleep
SchedStart ==
    /\ initialized
    /\ t_task = "none"
    /\ t_task' = "running"
    /\ UNCHANGED <<t_threshold, t_log, t_cancelled_at, taskVars>>
    /\ UNCHANGED <<envVars, vtrVars, rbcVars, walletVars, authVars, priceVars, appVars>>

\* a cycle that pays out only a balance above the threshold
SchedCycleAboveThreshold ==
    /\ AtSleep
    /\ Len(t_log) < MaxCycles
    /\ \E raised \in BOOLEAN :
         LET current_balance == ServiceBalance IN
         IF raised
           THEN /\ t_log' = Append(t_log, Cycle("error", 0))
                /\ UNCHANGED call
         ELSE IF current_balance > t_threshold
           THEN /\ t_log' = Append(t_log, Cycle("payout", current_balance))
                /\ call' = [call EXCEPT ![SCHED] = PayStart(current_balance)]
         ELSE /\ t_log' = Append(t_log, Cycle("skip", current_balance))
              /\ UNCHANGED call
    /\ UNCHANGED <<t_task, t_threshold, t_cancelled_at, taskVars>>
    /\ UNCHANGED <<initialized, redemption_lock, credits, issued, melted>>
    /\ UNCHANGED <<envVars, vtrVars, rbcVars, authVars, priceVars, appVars>>

\* a loop that an exception of its body, or a failed payout in the cycle
\* before, brings to an end
SchedCycleEndsOnFailure ==
    /\ AtSleep
    /\ Len(t_log) < MaxCycles
    /\ \E raised \in BOOLEAN :
         LET current_balance == ServiceBalance IN
         IF raised \/ LastCycle = "failure"
           THEN /\ t_log' = Append(t_log, Cycle("error", 0))
                /\ t_task' = "ended"
                /\ UNCHANGED call
         ELSE IF current_balance >= t_threshold
           THEN /\ t_log' = Append(t_log, Cycle("payout", current_balance))
                /\ call' = [call EXCEPT ![SCHED] = PayStart(current_balance)]
                /\ UNCHANGED t_task
         ELSE /\ t_log' = Append(t_log, Cycle("skip", current_balance))
              /\ UNCHANGED <<call, t_task>>
    /\ UNCHANGED <<t_threshold, t_cancelled_at, taskVars>>
    /\ UNCHANGED <<initialized, redemption_lock, credits, issued, melted>>
    /\ UNCHANGED <<envVars, vtrVars, rbcVars, authVars, priceVars, appVars>>

\* one cycle of the loop, from the end of the sleep to the next await (lines
\* 264-276 and 281-283): the balance is read and compared with the
\* threshold; a payout of the balance runs up to the lock.  An exception of
\* the body is logged and the loop goes on.
SchedCycle ==
    /\ AtSleep
    /\ Len(t_log) < MaxCycles
    /\ \E raised \in BOOLEAN :
         LET current_balance == ServiceBalance IN
         IF raised
           THEN /\ t_log' = Append(t_log, Cycle("error", 0))
                /\ UNCHANGED call
         ELSE IF current_balance >= t_threshold
           THEN /\ t_log' = Append(t_log, Cycle("payout", current_balance))
                /\ call' = [call EXCEPT ![SCHED] = PayStart(current_balance)]
         ELSE /\ t_log' = Append(t_log, Cycle("skip", current_balance))
              /\ UNCHANGED call
    /\ UNCHANGED <<t_task, t_threshold, t_cancelled_at, taskVars>>
    /\ UNCHANGED <<initialized, redemption_lock, credits, issued, melted>>
    /\ UNCHANGED <<envVars, vtrVars, rbcVars, authVars, priceVars, appVars>>

\* an unwinding that leaves the lock with its holder
LockKeptOnUnwind(holder, c) == holder

\* leaving "async with self._redemption_lock" by an exception (line 641):
\* the lock is released when the leaving task holds it
LockAfterUnwind(holder, c) == IF holder = c THEN 0 ELSE holder

\* stop_payout_task (lines 248-257): task.cancel() raises CancelledError at
\* the await the loop is suspended in, which no "except Exception" catches;
\* it leaves "async with self._redemption_lock", which releases a lock that
\* is held, and ends the loop (lines 278-280).  A melt request in flight
\* may or may not have reached the mint.
SchedStop ==
    /\ t_task = "running"
    /\ t_task' = "ended"
    /\ LET at == call[SCHED].pc IN
       IF at \in {"idle", "done"}
         THEN /\ t_cancelled_at' = "sleep"
              /\ UNCHANGED <<call, redemption_lock, melted>>
         ELSE /\ t_cancelled_at' = at
              /\ call' = [call EXCEPT ![SCHED].pc = "cancelled"]
              /\ redemption_lock' = LockAfterUnwind(redemption_lock, SCHED)
              /\ \/ UNCHANGED melted
                 \/ /\ at = "p_melt"
                    /\ melted' = Append(melted, call[SCHED].send)
    /\ UNCHANGED <<t_threshold, t_log, taskVars>>
    /\ UNCHANGED <<initialized, credits, issued>>
    /\ UNCHANGED <<envVars, vtrVars, rbcVars, authVars, priceVars, appVars>>

SchedNext ==
    \/ SchedStart
    \/ SchedCycle
    \/ PayAcquire(SCHED)
    \/ PayNegotiate(SCHED)
    \/ PaySelect(SCHED)
    \/ PayMelt(SCHED)
    \/ PayReload(SCHED)
    \/ SchedStop
    \/ \E c \in Callers \ {SCHED} :
        \/ \E t \in WalletToks : RecvCall(c, t)
        \/ RecvAcquire(c)
        \/ RecvSwap(c)
        \/ RecvReload(c)
        \/ RecvRecovery(c)

\* the tasks that contend for the lock: two at a time
LockSlots == {c \in Callers : c <= 2}

\* the slot is free for a request: the loop's slot is while no loop was
\* started
RequestSlot(c) == c # SCHED \/ t_task = "none"

\* the loop, redemptions, and payouts asked for by an administrator, all
\* on one wallet
LockNext ==
    \/ call[SCHED].pc = "idle" /\ SchedStart
    \/ SchedCycle
    \/ SchedStop
    \/ \E c \in LockSlots :
        \/ RequestSlot(c) /\ RecvCall(c, Mk("cashuA", TRUE, 12, TRUE, PRIMARY_MINT, 10))
        \/ RecvAcquire(c)
        \/ RecvSwap(c)
        \/ RecvReload(c)
        \/ RecvRecovery(c)
        \/ RequestSlot(c) /\ PayCall(c, NoAmount)
        \/ PayAcquire(c)
        \/ PayNegotiate(c)
        \/ PaySelect(c)
        \/ PayMelt(c)
        \/ PayReload(c)

\* every request to the mint or the payee returns or times out, and a task
\* that can take the free lock is scheduled (asyncio.Lock wakes its waiters
\* in the order they came)
LockFairness ==
    \A c \in Callers :
        /\ WF_vars(RecvAcquire(c)) /\ WF_vars(PayAcquire(c))
        /\ WF_vars(RecvSwap(c)) /\ WF_vars(RecvRecovery(c)) /\ WF_vars(RecvReload(c))
        /\ WF_vars(PayNegotiate(c)) /\ WF_vars(PaySelect(c))
        /\ WF_vars(PayMelt(c)) /\ WF_vars(PayReload(c))

(***************************************************************************)
(* The handle of the payout task: start_payout_task and stop_payout_task   *)
(* (cashu.py 235-257), called one after the other.  A task is known by a   *)
(* number; the loop it runs ends when its cancellation is delivered.       *)
(***************************************************************************)
TaskCall(name, did) == [name |-> name, did |-> did]

\* a start_payout_task that does not look at the handle
TaskExistsNever(payout_task) == FALSE

\* line 241: self._payout_task is not None
TaskExists(payout_task) == payout_task # 0

\* start_payout_task (lines 235-246)
TaskStart ==
    /\ k_stop_pc = "idle"
    /\ Len(k_log) < MaxCalls
    /\ IF ~m_ln_address
         THEN /\ k_log' = Append(k_log, TaskCall("start", "no_address"))
              /\ UNCHANGED <<k_payout_task, k_loops>>
       ELSE IF TaskExists(k_payout_task)
         THEN /\ k_log' = Append(k_log, TaskCall("start", "already_running"))
              /\ UNCHANGED <<k_payout_task, k_loops>>
       ELSE LET task == Len(k_log) + 1 IN
            /\ k_payout_task' = task
            /\ k_loops' = k_loops \cup {task}
            /\ k_log' = Append(k_log, TaskCall("start", "created"))
    /\ UNCHANGED <<k_cancel, k_stop_pc>>
    /\ UNCHANGED <<t_task, t_threshold, t_log, t_cancelled_at>>
    /\ UNCHANGED <<envVars, vtrVars, rbcVars, walletVars, authVars, priceVars, appVars>>

\* stop_payout_task up to its await (lines 248-253): without a task it does
\* nothing, with one it requests the cancellation and waits for the task
TaskStopCancel ==
    /\ k_stop_pc = "idle"
    /\ Len(k_log) < MaxCalls
    /\ IF ~TaskExists(k_payout_task)
         THEN /\ k_log' = Append(k_log, TaskCall("stop", "nothing"))
              /\ UNCHANGED <<k_cancel, k_stop_pc>>
         ELSE /\ k_cancel' = k_cancel \cup ({k_payout_task} \cap k_loops)
              /\ k_stop_pc' = "await"
              /\ UNCHANGED k_log
    /\ UNCHANGED <<k_payout_task, k_loops>>
    /\ UNCHANGED <<t_task, t_threshold, t_log, t_cancelled_at>>
    /\ UNCHANGED <<envVars, vtrVars, rbcVars, walletVars, authVars, priceVars, appVars>>

\* _periodic_payout_loop receives the CancelledError and breaks (lines
\* 278-280): the task ends
TaskLoopCancelled(task) ==
    /\ task \in k_cancel
    /\ k_loops' = k_loops \ {task}
    /\ k_cancel' = k_cancel \ {task}
    /\ UNCHANGED <<k_payout_task, k_stop_pc, k_log>>
    /\ UNCHANGED <<t_task, t_threshold, t_log, t_cancelled_at>>
    /\ UNCHANGED <<envVars, vtrVars, rbcVars, walletVars, authVars, priceVars, appVars>>

\* stop_payout_task after its await (lines 253-257): the task has ended,
\* the handle is cleared
TaskStopClear ==
    /\ k_stop_pc = "await"
    /\ k_payout_task \notin k_loops
    /\ k_payout_task' = 0
    /\ k_stop_pc' = "idle"
    /\ k_log' = Append(k_log, TaskCall("stop", "stopped"))
    /\ UNCHANGED <<k_loops, k_cancel>>
    /\ UNCHANGED <<t_task, t_threshold, t_log, t_cancelled_at>>
    /\ UNCHANGED <<envVars, vtrVars, rbcVars, walletVars, authVars, priceVars, appVars>>

TaskNext ==
    \/ TaskStart
    \/ TaskStopCancel
    \/ \E task \in 1..MaxCalls : TaskLoopCancelled(task)
    \/ TaskStopClear

\* no task was created and no call is in progress
TaskIdle ==
    /\ k_payout_task = 0
    /\ k_loops = {}
    /\ k_cancel = {}
    /\ k_stop_pc = "idle"
    /\ k_log = <<>>

\* no payout task was started
SchedIdle ==
    /\ t_task = "none"
    /\ t_threshold = 60
    /\ t_log = <<>>
    /\ t_cancelled_at = ""
    /\ TaskIdle

(***************************************************************************)
(* check_token_spent (cashu.py 552-563), the spend-state query behind      *)
(* POST /check.  The mint answers with one state per proof of the token.   *)
(***************************************************************************)
ProofStates == {"UNSPENT", "PENDING", "SPENT"}

IsSpentState(st) == st = "SPENT"

\* what wallet.check_proof_state can come back with for token t: a state per
\* proof (one or two proofs), some of them spent exactly when the mint has
\* seen the token spent; or the query raises
MintStateAnswers(t, spent) ==
    LET answers == { <<a>> : a \in ProofStates } \cup
                   { <<a, b>> : a \in ProofStates, b \in ProofStates }
        consistent == { a \in answers :
                          (t \in spent) <=> (\E i \in 1..Len(a) : IsSpentState(a[i])) }
    IN { [kind |-> "states", states |-> a] : a \in consistent }
         \cup { [kind |-> "error", states |-> <<>>] }

\* a check that takes a failed query for an unspent token
CheckSpentFailOpen(answer) ==
    IF answer.kind = "error" THEN FALSE
    ELSE \E i \in 1..Len(answer.states) : IsSpentState(answer.states[i])

\* lines 559-563: any(state.spent ...), True when the query raised
CheckSpentResult(answer) ==
    IF answer.kind = "error" THEN TRUE
    ELSE \E i \in 1..Len(answer.states) : IsSpentState(answer.states[i])

\* check_token_spent up to its await (lines 554-559)
CheckSpentCall(c, t) ==
    /\ call[c].pc = "idle"
    /\ IF ~initialized \/ ~t.parses
         THEN call' = [call EXCEPT ![c].op = "check_spent", ![c].token = t,
                          ![c].pc = "done", ![c].spent = TRUE]
         ELSE call' = [call EXCEPT ![c].op = "check_spent", ![c].token = t,
                          ![c].pc = "k_query"]
    /\ UNCHANGED <<initialized, redemption_lock, credits, issued, melted>>
    /\ UNCHANGED <<envVars, vtrVars, rbcVars, authVars, priceVars, schedVars, appVars>>

\* check_token_spent from the mint's answer to its return (lines 559-563)
CheckSpentAnswer(c) ==
    /\ call[c].pc = "k_query"
    /\ \E answer \in MintStateAnswers(call[c].token, mintSpent) :
         call' = [call EXCEPT ![c].pc = "done", ![c].answer = answer,
                     ![c].spent = CheckSpentResult(answer)]
    /\ UNCHANGED <<initialized, redemption_lock, credits, issued, melted>>
    /\ UNCHANGED <<envVars, vtrVars, rbcVars, authVars, priceVars, schedVars, appVars>>

QueryNext ==
    \/ Initialize
    \/ \E c \in Callers :
        \/ \E t \in WalletToks : CheckSpentCall(c, t)
        \/ CheckSpentAnswer(c)

(***************************************************************************)
(* NIP-98 verification: backend/src/auth/nip98.py                          *)
(*                                                                         *)
(* An Authorization header is described by how far its decoding gets and,  *)
(* when it decodes to a JSON object, by the fields of that event.  The     *)
(* hash and the Schnorr check of verify_event_signature are external: an   *)
(* event says whether its id is the hash of its content and whether its    *)
(* signature verifies.                                                     *)
(***************************************************************************)
NIP98_KIND == 27235
DEFAULT_EXPIRY_SECONDS == 60

\* a URL: a text that does not end in a slash, followed by some slashes
Url(base, slashes) == [base |-> base, slashes |-> slashes]

\* a normalization that takes one slash off the end, when there is one
RstripOne(u) ==
    [base |-> u.base, slashes |-> IF u.slashes > 0 THEN u.slashes - 1 ELSE 0]

\* str.rstrip('/')
Rstrip(u) == [base |-> u.base, slashes |-> 0]

STATS_URL == "https://api.example/api/admin/stats"
SWEEP_URL == "https://api.example/api/admin/sweep"

\* str.upper() on the method names of the model
Upper(m) ==
    IF m \in {"get", "GET"} THEN "GET"
    ELSE IF m \in {"post", "POST"} THEN "POST"
    ELSE m

\* hashlib.sha256(body).hexdigest()
Sha256Hex(b) ==
    IF b = "body1" THEN "sha256-of-body1"
    ELSE IF b = "body2" THEN "sha256-of-body2"
    ELSE "sha256-of-empty"

\* the value get_tag_value finds for a tag: None when the event has no such
\* tag, a string, or a JSON value that is not a string
NoTag(default) == [kind |-> "absent", val |-> default]
StrTag(v) == [kind |-> "str", val |-> v]
OtherTag(default) == [kind |-> "other", val |-> default]

EmptyUrl == Url("", 0)

\* not value, for a tag value: None or the empty string
Falsy(tv, empty) == tv.kind = "absent" \/ (tv.kind = "str" /\ tv.val = empty)

UTags == { NoTag(EmptyUrl), OtherTag(EmptyUrl),
           StrTag(Url(STATS_URL, 0)), StrTag(Url(STATS_URL, 1)),
           StrTag(Url(STATS_URL, 2)), StrTag(Url(SWEEP_URL, 0)) }
MethodTags == { NoTag(""), OtherTag(""), StrTag("get"), StrTag("POST") }
PayloadTags == { NoTag(""), StrTag(""), StrTag("sha256-of-body1"),
                 StrTag("sha256-of-body2") }

ADMIN_HEX == "aa11"
OTHER_HEX == "bb22"

\* an entry of the allowlist: hex as it stands, or an npub with the hex it
\* decodes to ("" when it does not decode)
HexEntry(h) == [npub |-> FALSE, hex |-> h]
NpubEntry(h) == [npub |-> TRUE, hex |-> h]

\* npub_to_hex: None for an npub that does not decode
npub_to_hex(pk) == pk.hex

\* lines 242-249: the allowlist normalized to hex
NormalizedAllowed(allowed_pubkeys) ==
    { (IF allowed_pubkeys[i].npub THEN npub_to_hex(allowed_pubkeys[i])
                                  ELSE allowed_pubkeys[i].hex) :
        i \in { j \in 1..Len(allowed_pubkeys) :
                  allowed_pubkeys[j].npub => npub_to_hex(allowed_pubkeys[j]) # "" } }

\* seconds on the clock
CurrentTimes == {1000}
CreatedAts == {939, 940, 1000, 1060, 1061}

\* event["created_at"]: a number, or a JSON value that is not a number
Number(n) == [number |-> TRUE, value |-> n]
NotANumber == [number |-> FALSE, value |-> 0]

Events98 ==
    [ kind : {NIP98_KIND, 1},
      auth : {"ok", "bad_id", "bad_sig"},
      created_at : {Number(n) : n \in CreatedAts} \cup {NotANumber},
      tags : [u : UTags, method : MethodTags, payload : PayloadTags],
      pubkey : {ADMIN_HEX, OTHER_HEX} ]

NoEvent == [ kind |-> 0, auth |-> "bad_id", created_at |-> NotANumber,
             tags |-> [u |-> NoTag(EmptyUrl), method |-> NoTag(""),
                       payload |-> NoTag("")],
             pubkey |-> "" ]

\* headers: without the "Nostr " prefix; with a payload that is not base64,
\* UTF-8 or JSON; with JSON that is not an object; with an event
AuthHeaders ==
    { [shape |-> sh, event |-> NoEvent] :
        sh \in {"no_scheme", "undecodable", "json_not_object"} }
    \cup { [shape |-> "event", event |-> e] : e \in Events98 }

\* requests: the method and the body that comes with it
Requests98 ==
    { [method |-> "GET", body |-> ""],
      [method |-> "POST", body |-> "body1"],
      [method |-> "POST", body |-> ""] }

RequestUrls == { Url(STATS_URL, 0), Url(STATS_URL, 1) }

AllowLists == { <<>>, <<HexEntry(ADMIN_HEX)>>, <<NpubEntry("")>>,
                <<NpubEntry(""), NpubEntry(ADMIN_HEX)>> }

AuthResult(valid, pubkey, error) ==
    [valid |-> valid, pubkey |-> pubkey, error |-> error, raised |-> FALSE]
\* the call raised instead of returning
Raised == [valid |-> FALSE, pubkey |-> "", error |-> "", raised |-> TRUE]
NoResult == [valid |-> FALSE, pubkey |-> "", error |-> "<pending>", raised |-> FALSE]

\* verify_event_signature: the id is the hash of the content and the
\* signature verifies; any exception gives False
verify_event_signature(event) == event.auth = "ok"

\* get_tag_value
get_tag_value(event, tag_name) ==
    IF tag_name = "u" THEN event.tags.u
    ELSE IF tag_name = "method" THEN event.tags.method
    ELSE event.tags.payload

\* an expiry test that rejects an event as old as the window
IsExpiredInclusive(current_time, created_at, expiry_seconds) ==
    current_time - created_at >= expiry_seconds

\* line 203: current_time - created_at > expiry_seconds
IsExpired(current_time, created_at, expiry_seconds) ==
    current_time - created_at > expiry_seconds

\* line 207: created_at > current_time + 60
IsFromFuture(current_time, created_at) == created_at > current_time + 60

\* a payload check that also hashes an absent body
PayloadMismatchAnyBody(body, event_payload) ==
    ~Falsy(event_payload, "") /\ event_payload.val # Sha256Hex(body)

\* lines 228-232: the body is present, the payload tag has a value and the
\* value is not the hash of the body
PayloadMismatch(body, event_payload) ==
    /\ body # ""
    /\ ~Falsy(event_payload, "")
    /\ event_payload.val # Sha256Hex(body)

\* an allowlist check that is skipped when no entry of the list decodes
NotAuthorizedAmongDecoded(pubkey, allowed_pubkeys) ==
    /\ NormalizedAllowed(allowed_pubkeys) # {}
    /\ pubkey \notin NormalizedAllowed(allowed_pubkeys)

\* lines 240-252: an allowlist is given and the pubkey is not a member of
\* the normalized list
NotAuthorized(pubkey, allowed_pubkeys) ==
    /\ allowed_pubkeys # <<>>
    /\ pubkey \notin NormalizedAllowed(allowed_pubkeys)

\* a verify_nip98_event that compares the URL before it looks at the clock
verify_nip98_event_url_first(auth_header, url, method, body, allowed_pubkeys, expiry_seconds, current_time) ==
    LET event == auth_header.event
        created_at == event.created_at
        event_url == get_tag_value(event, "u")
        event_method == get_tag_value(event, "method")
        event_payload == get_tag_value(event, "payload")
        pubkey == event.pubkey
    IN IF auth_header.shape = "no_scheme"
         THEN AuthResult(FALSE, "", "Invalid auth header format")
       ELSE IF auth_header.shape = "undecodable"
         THEN AuthResult(FALSE, "", "Failed to decode event")
       ELSE IF auth_header.shape = "json_not_object" THEN Raised
       ELSE IF event.kind # NIP98_KIND
         THEN AuthResult(FALSE, "", "Invalid event kind")
       ELSE IF ~verify_event_signature(event)
         THEN AuthResult(FALSE, "", "Invalid event signature")
       ELSE IF Falsy(event_url, EmptyUrl) THEN AuthResult(FALSE, "", "Missing 'u' tag")
       ELSE IF event_url.kind = "other" THEN Raised
       ELSE IF Rstrip(event_url.val) # Rstrip(url)
         THEN AuthResult(FALSE, "", "URL mismatch")
       ELSE IF ~created_at.number THEN Raised
       ELSE IF IsExpired(current_time, created_at.value, expiry_seconds)
         THEN AuthResult(FALSE, "", "Event expired")
       ELSE IF IsFromFuture(current_time, created_at.value)
         THEN AuthResult(FALSE, "", "Event from the future")
       ELSE IF Falsy(event_method, "") THEN AuthResult(FALSE, "", "Missing 'method' tag")
       ELSE IF event_method.kind = "other" THEN Raised
       ELSE IF Upper(event_method.val) # Upper(method)
         THEN AuthResult(FALSE, "", "Method mismatch")
       ELSE IF PayloadMismatch(body, event_payload)
         THEN AuthResult(FALSE, "", "Payload hash mismatch")
       ELSE IF pubkey = "" THEN AuthResult(FALSE, "", "Missing pubkey")
       ELSE IF NotAuthorized(pubkey, allowed_pubkeys)
         THEN AuthResult(FALSE, "", "Pubkey not authorized")
       ELSE AuthResult(TRUE, pubkey, "")

\* verify_nip98_event (lines 154-261); current_time is int(time.time())
verify_nip98_event(auth_header, url, method, body, allowed_pubkeys, expiry_seconds, current_time) ==
    LET event == auth_header.event
        created_at == event.created_at
        event_url == get_tag_value(event, "u")
        event_method == get_tag_value(event, "method")
        event_payload == get_tag_value(event, "payload")
        pubkey == event.pubkey
    IN IF auth_header.shape = "no_scheme"
         THEN AuthResult(FALSE, "", "Invalid auth header format")
       ELSE IF auth_header.shape = "undecodable"
         THEN AuthResult(FALSE, "", "Failed to decode event")
       \* event.get on a JSON value that is no object (line 193)
       ELSE IF auth_header.shape = "json_not_object" THEN Raised
       ELSE IF event.kind # NIP98_KIND
         THEN AuthResult(FALSE, "", "Invalid event kind")
       ELSE IF ~verify_event_signature(event)
         THEN AuthResult(FALSE, "", "Invalid event signature")
       \* current_time - created_at on a value that is no number (line 203)
       ELSE IF ~created_at.number THEN Raised
       ELSE IF IsExpired(current_time, created_at.value, expiry_seconds)
         THEN AuthResult(FALSE, "", "Event expired")
       ELSE IF IsFromFuture(current_time, created_at.value)
         THEN AuthResult(FALSE, "", "Event from the future")
       ELSE IF Falsy(event_url, EmptyUrl) THEN AuthResult(FALSE, "", "Missing 'u' tag")
       \* event_url.rstrip on a value that is no string (line 216)
       ELSE IF event_url.kind = "other" THEN Raised
       ELSE IF Rstrip(event_url.val) # Rstrip(url)
         THEN AuthResult(FALSE, "", "URL mismatch")
       ELSE IF Falsy(event_method, "") THEN AuthResult(FALSE, "", "Missing 'method' tag")
       \* event_method.upper on a value that is no string (line 224)
       ELSE IF event_method.kind = "other" THEN Raised
       ELSE IF Upper(event_method.val) # Upper(method)
         THEN AuthResult(FALSE, "", "Method mismatch")
       ELSE IF PayloadMismatch(body, event_payload)
         THEN AuthResult(FALSE, "", "Payload hash mismatch")
       ELSE IF pubkey = "" THEN AuthResult(FALSE, "", "Missing pubkey")
       ELSE IF NotAuthorized(pubkey, allowed_pubkeys)
         THEN AuthResult(FALSE, "", "Pubkey not authorized")
       ELSE AuthResult(TRUE, pubkey, "")

\* one call of verify_nip98_event with the default expiry
NipVerify ==
    /\ n_result = NoResult
    /\ n_result' = verify_nip98_event(n_auth_header, n_url, n_method, n_body,
                                      n_allowed_pubkeys, DEFAULT_EXPIRY_SECONDS,
                                      n_current_time)
    /\ UNCHANGED <<n_auth_header, n_url, n_method, n_body, n_allowed_pubkeys,
                   n_current_time, n_seen>>
    /\ UNCHANGED <<envVars, vtrVars, rbcVars, walletVars, priceVars, schedVars, appVars>>

AuthNext == NipVerify

\* the times at which a header is presented again
ReplayTimes == {1000, 1030, 1060, 1061}

\* a second call that rejects a header it has accepted before
NipVerifyAgainTracked ==
    /\ n_result # NoResult
    /\ Len(n_seen) < MaxReplays
    /\ \E t \in ReplayTimes :
         /\ t >= n_current_time
         /\ n_current_time' = t
         /\ n_result' = IF n_result.valid
                           THEN AuthResult(FALSE, "", "Event already used")
                         ELSE verify_nip98_event(n_auth_header, n_url, n_method, n_body,
                                  n_allowed_pubkeys, DEFAULT_EXPIRY_SECONDS, t)
    /\ n_seen' = Append(n_seen, [time |-> n_current_time, result |-> n_result])
    /\ UNCHANGED <<n_auth_header, n_url, n_method, n_body, n_allowed_pubkeys>>
    /\ UNCHANGED <<envVars, vtrVars, rbcVars, walletVars, priceVars, schedVars, appVars>>

\* the same request comes again, at the same time or later, and
\* verify_nip98_event is called with it (lines 154-261)
NipVerifyAgain ==
    /\ n_result # NoResult
    /\ Len(n_seen) < MaxReplays
    /\ \E t \in ReplayTimes :
         /\ t >= n_current_time
         /\ n_current_time' = t
         /\ n_result' = verify_nip98_event(n_auth_header, n_url, n_method, n_body,
                                           n_allowed_pubkeys, DEFAULT_EXPIRY_SECONDS, t)
    /\ n_seen' = Append(n_seen, [time |-> n_current_time, result |-> n_result])
    /\ UNCHANGED <<n_auth_header, n_url, n_method, n_body, n_allowed_pubkeys>>
    /\ UNCHANGED <<envVars, vtrVars, rbcVars, walletVars, priceVars, schedVars, appVars>>

ReplayNext == NipVerify \/ NipVerifyAgain

\* a request whose header carries a signed NIP-98 event without a payload tag
ReplayInit ==
    /\ n_auth_header \in { h \in AuthHeaders :
                              /\ h.shape = "event"
                              /\ h.event.kind = NIP98_KIND
                              /\ h.event.auth = "ok"
                              /\ h.event.tags.payload = NoTag("") }
    /\ n_url = Url(STATS_URL, 0)
    /\ \E rq \in Requests98 : n_method = rq.method /\ n_body = rq.body
    /\ n_allowed_pubkeys \in {<<>>, <<HexEntry(ADMIN_HEX)>>}
    /\ n_current_time \in CurrentTimes
    /\ n_result = NoResult
    /\ n_seen = <<>>

\* a request with its Authorization header arrives
AuthInit ==
    /\ n_auth_header \in AuthHeaders
    /\ n_url \in RequestUrls
    /\ \E rq \in Requests98 : n_method = rq.method /\ n_body = rq.body
    /\ n_allowed_pubkeys \in AllowLists
    /\ n_current_time \in CurrentTimes
    /\ n_result = NoResult
    /\ n_seen = <<>>

\* no verification is in progress
AuthIdle ==
    /\ n_auth_header = [shape |-> "no_scheme", event |-> NoEvent]
    /\ n_url = Url(STATS_URL, 0)
    /\ n_method = "GET"
    /\ n_body = ""
    /\ n_allowed_pubkeys = <<>>
    /\ n_current_time = 1000
    /\ n_result = NoResult
    /\ n_seen = <<>>

(***************************************************************************)
(* The backend application: startup (backend/src/main.py) and the admin    *)
(* routes (backend/src/routes/admin.py).                                   *)
(***************************************************************************)
\* WALLET_MNEMONIC: unset, or a phrase of so many words
MnemonicWords == {0, 11, 12, 24}

\* a validation that takes any mnemonic that is set
validate_configuration_any_mnemonic(words, admin_npubs) ==
    (IF words = 0 THEN {"WALLET_MNEMONIC is required"} ELSE {})
        \cup (IF admin_npubs = <<>> THEN {"ADMIN_NPUBS is required"} ELSE {})

\* validate_configuration (main.py 42-70): the errors it returns
validate_configuration(words, admin_npubs) ==
    (IF words = 0 THEN {"WALLET_MNEMONIC is required"}
     ELSE IF words \notin {12, 24} THEN {"WALLET_MNEMONIC should be 12 or 24 words"}
     ELSE {})
        \cup (IF admin_npubs = <<>> THEN {"ADMIN_NPUBS is required"} ELSE {})

\* lifespan up to its first await (main.py 73-101): sys.exit(1) on a
\* configuration error, else the service is constructed and initialize runs
\* up to its first await
AppStartup ==
    /\ m_phase = "starting"
    /\ m_phase' = IF validate_configuration(m_words, m_admins) # {} THEN "exited"
                  ELSE "initializing"
    /\ UNCHANGED <<m_words, m_admins, m_ln_address, h_req>>
    /\ UNCHANGED <<envVars, vtrVars, rbcVars, walletVars, authVars, priceVars, schedVars>>

\* the rest of the startup (main.py 99-111, cashu.py 176-246): initialize
\* ends and start_payout_task creates the loop when a payout address is
\* set, or initialize raises and the application does not come up
AppInitialized ==
    /\ m_phase = "initializing"
    /\ \/ /\ initialized' = TRUE
          /\ t_task' = IF m_ln_address THEN "running" ELSE "none"
          /\ m_phase' = "serving"
       \/ /\ m_phase' = "failed"
          /\ UNCHANGED <<initialized, t_task>>
    /\ UNCHANGED <<m_words, m_admins, m_ln_address, h_req>>
    /\ UNCHANGED <<t_threshold, t_log, t_cancelled_at, taskVars>>
    /\ UNCHANGED <<redemption_lock, call, credits, issued, melted>>
    /\ UNCHANGED <<envVars, vtrVars, rbcVars, authVars, priceVars>>

WITHDRAW_URL == "https://api.example/api/admin/withdraw"
PAYOUT_URL == "https://api.example/api/admin/payout"

AdminEndpoints == {"stats", "withdraw", "sweep", "payout"}

\* the routes of admin.py: URL, method and the body a client sends
AdminUrl(endpoint) ==
    CASE endpoint = "stats" -> Url(STATS_URL, 0)
      [] endpoint = "withdraw" -> Url(WITHDRAW_URL, 0)
      [] endpoint = "sweep" -> Url(SWEEP_URL, 0)
      [] endpoint = "payout" -> Url(PAYOUT_URL, 0)
AdminMethod(endpoint) == IF endpoint = "stats" THEN "GET" ELSE "POST"
AdminBody(endpoint) == IF endpoint \in {"withdraw", "payout"} THEN "body1" ELSE ""

\* no Authorization header
NoHeader == [shape |-> "absent", event |-> NoEvent]

\* an event signed now by pubkey for the endpoint
SignedFor(endpoint, pubkey) ==
    [ kind |-> NIP98_KIND, auth |-> "ok", created_at |-> Number(1000),
      tags |-> [u |-> StrTag(AdminUrl(endpoint)),
                method |-> StrTag(AdminMethod(endpoint)),
                payload |-> NoTag("")],
      pubkey |-> pubkey ]

\* the Authorization headers a request to the endpoint may carry
AdminHeaders(endpoint) ==
    { NoHeader,
      [shape |-> "no_scheme", event |-> NoEvent],
      [shape |-> "json_not_object", event |-> NoEvent] }
    \cup { [shape |-> "event", event |-> e] :
             e \in { SignedFor(endpoint, ADMIN_HEX),
                     SignedFor(endpoint, OTHER_HEX),
                     [SignedFor(endpoint, ADMIN_HEX) EXCEPT !.auth = "bad_sig"],
                     [SignedFor(endpoint, ADMIN_HEX) EXCEPT !.created_at = Number(939)],
                     [SignedFor(endpoint, ADMIN_HEX) EXCEPT
                          !.tags.payload = StrTag("sha256-of-body2")],
                     SignedFor("stats", ADMIN_HEX) } }

\* what verify_admin_auth comes to: the HTTP status (200 when it returns)
\* and the pubkey of the AuthResult
AdminAuth(status, pubkey) == [status |-> status, pubkey |-> pubkey]

\* a verify_admin_auth that verifies the event against no allowlist
verify_admin_auth_any_pubkey(authorization, url, method, body, admin_pubkeys, current_time) ==
    IF authorization = NoHeader THEN AdminAuth(401, "")
    ELSE IF admin_pubkeys = <<>> THEN AdminAuth(503, "")
    ELSE LET result == verify_nip98_event(authorization, url, method,
                           IF method \in {"POST", "PUT", "PATCH"} THEN body ELSE "",
                           <<>>, DEFAULT_EXPIRY_SECONDS, current_time)
         IN IF result.raised THEN AdminAuth(500, "")
            ELSE IF ~result.valid THEN AdminAuth(401, "")
            ELSE AdminAuth(200, result.pubkey)

\* verify_admin_auth (admin.py 87-135); an exception of verify_nip98_event
\* leaves the handler and the client gets a 500
verify_admin_auth(authorization, url, method, body, admin_pubkeys, current_time) ==
    IF authorization = NoHeader THEN AdminAuth(401, "")
    ELSE IF admin_pubkeys = <<>> THEN AdminAuth(503, "")
    ELSE LET result == verify_nip98_event(authorization, url, method,
                           IF method \in {"POST", "PUT", "PATCH"} THEN body ELSE "",
                           admin_pubkeys, DEFAULT_EXPIRY_SECONDS, current_time)
         IN IF result.raised THEN AdminAuth(500, "")
            ELSE IF ~result.valid THEN AdminAuth(401, "")
            ELSE AdminAuth(200, result.pubkey)

\* a request that no slot is handling
NoRequest == [endpoint |-> "", status |-> 0, pubkey |-> ""]

\* get_stats (cashu.py 565-586): a read of the wallet
StatsDone ==
    [NewCall EXCEPT !.op = "stats", !.pc = "done", !.before = ServiceBalance,
                    !.result = TokenResult(TRUE, ServiceBalance, "")]

\* amounts of a withdraw or payout request; NoAmount where none is given
AdminAmounts(endpoint) ==
    CASE endpoint = "withdraw" -> {0, 10}
      [] endpoint = "payout" -> {NoAmount, 10}
      [] OTHER -> {NoAmount}

\* a handler of admin.py (get_admin_stats, withdraw_funds, sweep_all_funds,
\* payout_to_lightning) from the request to the first await of the wallet
\* operation, or to the HTTPException of verify_admin_auth
AdminRequest(c, endpoint, authorization, amount) ==
    /\ m_phase = "serving"
    /\ call[c].pc = "idle"
    /\ h_req[c] = NoRequest
    /\ LET auth == verify_admin_auth(authorization, AdminUrl(endpoint),
                       AdminMethod(endpoint), AdminBody(endpoint), m_admins, 1000)
       IN /\ h_req' = [h_req EXCEPT ![c] = [endpoint |-> endpoint,
                                            status |-> auth.status,
                                            pubkey |-> auth.pubkey]]
          /\ IF auth.status # 200 THEN UNCHANGED call
             ELSE call' = [call EXCEPT ![c] =
                     CASE endpoint = "stats" -> StatsDone
                       [] endpoint = "withdraw" -> GenStart("generate", amount)
                       [] endpoint = "sweep" -> SweepStart
                       [] endpoint = "payout" -> PayStart(amount)]
    /\ UNCHANGED <<m_words, m_admins, m_ln_address, m_phase>>
    /\ UNCHANGED <<initialized, redemption_lock, credits, issued, melted>>
    /\ UNCHANGED <<envVars, vtrVars, rbcVars, authVars, priceVars, schedVars>>

\* the slots of call that admin requests are handled in
AdminSlots == {c \in Callers : c <= 2}

AppNext ==
    \/ AppStartup
    \/ AppInitialized
    \/ \E c \in AdminSlots :
        \/ \E endpoint \in AdminEndpoints :
             \E authorization \in AdminHeaders(endpoint), amount \in AdminAmounts(endpoint) :
                AdminRequest(c, endpoint, authorization, amount)
        \/ GenSelect(c)
        \/ GenReserve(c)
        \/ PayAcquire(c)
        \/ PayNegotiate(c)
        \/ PaySelect(c)
        \/ PayMelt(c)
        \/ PayReload(c)

\* the application is up with a valid configuration and no admin request
AppIdle ==
    /\ m_words = 12
    /\ m_admins = <<HexEntry(ADMIN_HEX)>>
    /\ m_ln_address = TRUE
    /\ m_phase = "serving"
    /\ h_req = [c \in Callers |-> NoRequest]

(***************************************************************************)
(* Initial states and specifications.                                      *)
(***************************************************************************)
VtrInit ==
    /\ a_pc = "__start__"
    /\ a_payment \in Payments
    /\ a_validated = TRUE
    /\ a_token = NoneTok
    /\ a_refund = FALSE
    /\ a_messages = <<HUMAN>>
    /\ a_log = <<>>
    /\ a_interrupted = FALSE

\* no validate-then-redeem run is in progress
VtrIdle ==
    /\ a_pc = "__end__"
    /\ a_payment = NoPayment
    /\ a_validated = TRUE
    /\ a_token = NoneTok
    /\ a_refund = FALSE
    /\ a_messages = <<>>
    /\ a_log = <<>>
    /\ a_interrupted = FALSE

\* the same request is submitted NumRuns times at once: a first message or a
\* follow-up in a thread that already holds one exchange
RbcInit ==
    /\ DEBUG_MODE \in BOOLEAN
    /\ \E p \in Payments, msgs \in {<<HUMAN>>, <<HUMAN, AI_FINAL, HUMAN>>} :
         /\ s_payment = [r \in Runs |-> p]
         /\ s_messages = [r \in Runs |-> msgs]
    /\ s_pc = [r \in Runs |-> "__start__"]
    /\ s_validated = [r \in Runs |-> TRUE]
    /\ s_redeemed = [r \in Runs |-> FALSE]
    /\ s_refund = [r \in Runs |-> FALSE]
    /\ s_refund_token = [r \in Runs |-> NoneTok]
    /\ s_error = [r \in Runs |-> ""]
    /\ s_log = [r \in Runs |-> <<>>]

\* no redeem-before-call run is in progress
RbcParked ==
    /\ s_payment = [r \in Runs |-> NoPayment]
    /\ s_messages = [r \in Runs |-> <<>>]
    /\ s_pc = [r \in Runs |-> "__end__"]
    /\ s_validated = [r \in Runs |-> TRUE]
    /\ s_redeemed = [r \in Runs |-> FALSE]
    /\ s_refund = [r \in Runs |-> FALSE]
    /\ s_refund_token = [r \in Runs |-> NoneTok]
    /\ s_error = [r \in Runs |-> ""]
    /\ s_log = [r \in Runs |-> <<>>]

RbcIdle == DEBUG_MODE = TRUE /\ RbcParked

\* the service object right after construction, no call made yet
WalletInit ==
    /\ initialized = FALSE
    /\ redemption_lock = 0
    /\ call = [c \in Callers |-> NewCall]
    /\ credits = <<>>
    /\ issued = <<>>
    /\ melted = <<>>

\* the mint may have seen the submitted token spent before the run starts
InitVtr ==
    /\ VtrInit
    /\ RbcIdle
    /\ WalletInit
    /\ AuthIdle
    /\ PriceIdle
    /\ SchedIdle
    /\ AppIdle
    /\ mintSpent \in SUBSET ({a_payment.ecash_token} \cap GoodToks)
    /\ proofs = {}

InitRbc ==
    /\ RbcInit
    /\ VtrIdle
    /\ WalletInit
    /\ AuthIdle
    /\ PriceIdle
    /\ SchedIdle
    /\ AppIdle
    /\ mintSpent \in SUBSET ({s_payment[1].ecash_token} \cap GoodToks)
    /\ proofs = {}

SpecVtr == InitVtr /\ [][VtrNext]_vars

SpecRbc == InitRbc /\ [][RbcNext]_vars

\* both graphs are deployed against the same wallet and the same request is
\* submitted to each of them
InitFsm ==
    /\ VtrInit
    /\ RbcInit
    /\ WalletInit
    /\ AuthIdle
    /\ PriceIdle
    /\ SchedIdle
    /\ AppIdle
    /\ s_payment[1] = a_payment
    /\ mintSpent \in SUBSET ({a_payment.ecash_token} \cap GoodToks)
    /\ proofs = {}

FsmNext == VtrNext \/ RbcNext

SpecFsm == InitFsm /\ [][FsmNext]_vars

\* the wallet starts with some of the seed proofs; every token is unspent
InitWallet ==
    /\ WalletInit
    /\ AuthIdle
    /\ PriceIdle
    /\ SchedIdle
    /\ AppIdle
    /\ VtrIdle
    /\ RbcIdle
    /\ mintSpent = {}
    /\ proofs \in SUBSET {ProofOf(SeedA), ProofOf(SeedB)}

SpecWallet == InitWallet /\ [][WalletNext]_vars

\* spend-state queries: the mint may have seen any of the tokens spent
InitQuery ==
    /\ WalletInit
    /\ AuthIdle
    /\ PriceIdle
    /\ SchedIdle
    /\ AppIdle
    /\ VtrIdle
    /\ RbcIdle
    /\ mintSpent \in SUBSET {t \in WalletToks : t.parses}
    /\ proofs = {}

SpecQuery == InitQuery /\ [][QueryNext]_vars

InitAuth ==
    /\ AuthInit
    /\ PriceIdle
    /\ SchedIdle
    /\ AppIdle
    /\ VtrIdle
    /\ RbcIdle
    /\ WalletInit
    /\ mintSpent = {}
    /\ proofs = {}

SpecAuth == InitAuth /\ [][AuthNext]_vars

InitReplay ==
    /\ ReplayInit
    /\ PriceIdle
    /\ SchedIdle
    /\ AppIdle
    /\ VtrIdle
    /\ RbcIdle
    /\ WalletInit
    /\ mintSpent = {}
    /\ proofs = {}

SpecReplay == InitReplay /\ [][ReplayNext]_vars

\* the module is loaded with PLEBCHAT_DEBUG_MODE set either way
InitPrice ==
    /\ DEBUG_MODE \in BOOLEAN
    /\ RbcParked
    /\ PriceIdle
    /\ SchedIdle
    /\ AppIdle
    /\ VtrIdle
    /\ WalletInit
    /\ AuthIdle
    /\ mintSpent = {}
    /\ proofs = {}

SpecPrice == InitPrice /\ [][PriceNext]_vars

\* the service right after initialize, with some of the seed proofs in the
\* wallet and a threshold read from the environment
InitSched ==
    /\ AppIdle
    /\ t_task = "none"
    /\ t_threshold \in PayoutThresholds
    /\ t_log = <<>>
    /\ t_cancelled_at = ""
    /\ TaskIdle
    /\ initialized = TRUE
    /\ redemption_lock = 0
    /\ call = [c \in Callers |-> NewCall]
    /\ credits = <<>>
    /\ issued = <<>>
    /\ melted = <<>>
    /\ VtrIdle
    /\ RbcIdle
    /\ AuthIdle
    /\ PriceIdle
    /\ mintSpent = {}
    /\ proofs \in SUBSET {ProofOf(SeedA), ProofOf(SeedB)}

SpecSched == InitSched /\ [][SchedNext]_vars

\* the wallet holds both seeds and the loop pays out from 10 sats on
InitLock == InitSched /\ t_threshold = 10 /\ proofs = {ProofOf(SeedA), ProofOf(SeedB)}

\* the service is initialized, with or without a payout address
InitTask ==
    /\ m_words = 12
    /\ m_admins = <<HexEntry(ADMIN_HEX)>>
    /\ m_ln_address \in BOOLEAN
    /\ m_phase = "serving"
    /\ h_req = [c \in Callers |-> NoRequest]
    /\ WalletInit
    /\ SchedIdle
    /\ VtrIdle
    /\ RbcIdle
    /\ AuthIdle
    /\ PriceIdle
    /\ mintSpent = {}
    /\ proofs = {}

SpecTask == InitTask /\ [][TaskNext]_vars

SpecLock == InitLock /\ [][LockNext]_vars /\ LockFairness

\* the service right after initialize, the wallet holding one proof
InitPayout ==
    /\ initialized = TRUE
    /\ redemption_lock = 0
    /\ call = [c \in Callers |-> NewCall]
    /\ credits = <<>>
    /\ issued = <<>>
    /\ melted = <<>>
    /\ VtrIdle
    /\ RbcIdle
    /\ AuthIdle
    /\ PriceIdle
    /\ SchedIdle
    /\ AppIdle
    /\ mintSpent = {}
    /\ \E amount \in PayoutBalances : proofs = {ProofOf(PayoutSeed(amount))}

SpecPayout == InitPayout /\ [][PayoutNext]_vars

\* the process starts with the environment it is given; the wallet database
\* holds the seed proofs
InitApp ==
    /\ m_words \in MnemonicWords
    /\ m_admins \in AllowLists
    /\ m_ln_address \in BOOLEAN
    /\ m_phase = "starting"
    /\ h_req = [c \in Callers |-> NoRequest]
    /\ WalletInit
    /\ SchedIdle
    /\ VtrIdle
    /\ RbcIdle
    /\ AuthIdle
    /\ PriceIdle
    /\ mintSpent = {}
    /\ proofs = {ProofOf(SeedA), ProofOf(SeedB)}

SpecApp == InitApp /\ [][AppNext]_vars

(***************************************************************************)
(* Reading a run's record.                                                 *)
(***************************************************************************)
IsReceiveEvent(e) == e[2] \in {"receive_ok", "receive_failed"}
IsLlmEvent(e) == e[2] \in {"llm_ok", "llm_error"}
IsLlmError(e) == e[2] = "llm_error"
IsCheckEvent(e) == e[2] \in {"check_ok", "check_failed"}

ReceiveCalls(log) == Len(SelectSeq(log, IsReceiveEvent))
LlmCalls(log) == Len(SelectSeq(log, IsLlmEvent))
LlmErrors(log) == Len(SelectSeq(log, IsLlmError))
CheckCalls(log) == Len(SelectSeq(log, IsCheckEvent))
Events(log) == { log[i][2] : i \in 1..Len(log) }

(***************************************************************************)
(* Validate-then-redeem graph: properties.                                 *)
(***************************************************************************)
\* C1: in a run that carries a real token, once the LLM call has failed no
\* /receive call is made for the token and the run ends with refund = true.
C1_NoRedemptionAfterLlmFailure ==
    (CarriesRealToken(a_payment) /\ LlmErrors(a_log) > 0) =>
        /\ ReceiveCalls(a_log) = 0
        /\ (a_pc = "__end__" => a_refund)

\* C4: a run submitted with a well-formed token that the mint already holds
\* spent stops at validate_payment: payment_validated = false, the graph goes
\* to END and the LLM is never invoked.
C4_SpentTokenShortCircuits ==
    ( /\ A_validate_token_format(a_payment.ecash_token)
      /\ a_payment.ecash_token \in mintSpent
      /\ ReceiveCalls(a_log) = 0 ) =>
        /\ LlmCalls(a_log) = 0
        /\ (a_pc \notin {"__start__", "validate_payment"} =>
                ~a_validated /\ a_pc = "__end__")

FirstIndex(log, Test(_)) ==
    IF \E i \in 1..Len(log) : Test(log[i])
      THEN CHOOSE i \in 1..Len(log) : Test(log[i]) /\ \A j \in 1..(i-1) : ~Test(log[j])
      ELSE 0

IsReceiveOk(e) == e[2] = "receive_ok"

\* C2 as stated: in every run, whatever the payment payload, an LLM
\* invocation implies payment_redeemed = true.
C2_LlmImpliesRedeemed ==
    \A r \in Runs : LlmCalls(s_log[r]) > 0 => s_redeemed[r]

\* C2 amended: in every run that carries a real token (not free mode, not the
\* debug sentinel) the LLM is invoked only after a redemption of the token
\* succeeded earlier in the run, and payment_redeemed = true.
C2_RealTokenLlmImpliesRedeemed ==
    \A r \in Runs :
        (CarriesRealToken(s_payment[r]) /\ LlmCalls(s_log[r]) > 0) =>
            /\ s_redeemed[r]
            /\ FirstIndex(s_log[r], IsReceiveOk) > 0
            /\ FirstIndex(s_log[r], IsReceiveOk) < FirstIndex(s_log[r], IsLlmEvent)

\* a paid run: real token, redeemed, LLM invoked
C2_Witness ==
    \E r \in Runs :
        /\ CarriesRealToken(s_payment[r])
        /\ LlmCalls(s_log[r]) > 0
        /\ s_redeemed[r]

\* C3: for a run with a real token, validate_payment first checks the token
\* (/check) and then redeems it (/receive); the agent is reached only when
\* both succeeded; when either fails the graph goes from validate_payment
\* straight to END and the LLM is never invoked.
C3_CheckThenRedeemThenAgent ==
    \A r \in Runs :
        CarriesRealToken(s_payment[r]) =>
            LET log == s_log[r] IN
            /\ (Len(log) >= 1 => IsCheckEvent(log[1]))
            /\ (Len(log) >= 2 => log[1][2] = "check_ok" /\ IsReceiveEvent(log[2]))
            /\ (Len(log) >= 3 => log[2][2] = "receive_ok" /\ IsLlmEvent(log[3]))
            /\ (s_pc[r] \in {"agent", "finalize"} =>
                    Len(log) >= 2 /\ log[1][2] = "check_ok" /\ log[2][2] = "receive_ok")
            /\ ({"check_failed", "receive_failed"} \cap Events(log) # {} =>
                    s_pc[r] = "__end__" /\ LlmCalls(log) = 0)

\* a run whose check and redemption both succeeded and that reached the LLM
C3_Witness ==
    \E r \in Runs :
        /\ CarriesRealToken(s_payment[r])
        /\ s_log[r] = << <<"validate_payment", "check_ok">>,
                         <<"validate_payment", "receive_ok">>,
                         <<"agent", "llm_ok">> >>

\* C5: when the check fails (amount below the required amount, or the
\* backend reports invalid, spent, a non-200 status or times out),
\* validate_payment ends with payment_validated = false, payment_redeemed =
\* false, refund = true and refund_token = the submitted token; no /receive
\* call is made and the graph is at END without an LLM invocation.
C5_FailedCheckRefunds ==
    \A r \in Runs :
        "check_failed" \in Events(s_log[r]) =>
            /\ ~s_validated[r]
            /\ ~s_redeemed[r]
            /\ s_refund[r]
            /\ s_refund_token[r] = s_payment[r].ecash_token
            /\ ReceiveCalls(s_log[r]) = 0
            /\ LlmCalls(s_log[r]) = 0
            /\ s_pc[r] = "__end__"

\* an unspent, trusted token worth less than the required amount was refused
C5_Witness ==
    \E r \in Runs :
        /\ "check_failed" \in Events(s_log[r])
        /\ BackendValidateTokenFormat(s_payment[r].ecash_token)
        /\ s_payment[r].ecash_token \notin mintSpent
        /\ s_payment[r].ecash_token.amount <
               get_required_amount(DEBUG_MODE, "plebchat", is_first_message(s_messages[r]))
        /\ s_refund_token[r] = s_payment[r].ecash_token

(***************************************************************************)
(* Wallet service: properties.                                             *)
(***************************************************************************)
ReceiveCallsOf(t) == {c \in Callers : call[c].op = "receive" /\ call[c].token = t}
Succeeded(t) == {c \in ReceiveCallsOf(t) : call[c].pc = "done" /\ call[c].result.success}
Failed(t) == {c \in ReceiveCallsOf(t) : call[c].pc = "done" /\ ~call[c].result.success}
Credited(t) == Len(SelectSeq(credits, LAMBDA x : x = t))
AllDone == \A c \in Callers : call[c].pc = "done"
ReachedMint(t) == {c \in ReceiveCallsOf(t) : Len(call[c].attempts) >= 1}

\* C7 as stated: once the concurrent receive_token calls for a token that the
\* mint does not find invalid have returned, exactly one returned success.
C7_ExactlyOneSuccess ==
    \A t \in WalletToks :
        ( /\ AllDone
          /\ ReachedMint(t) # {}
          /\ \A c \in ReachedMint(t) : \A i \in 1..Len(call[c].attempts) :
                 call[c].attempts[i] # SWAP_INVALID )
        => Cardinality(Succeeded(t)) = 1

\* C7 amended: of the receive_token calls for one token, unspent when the
\* calls start, at most one returns success and every other returns a
\* failure; the wallet is credited with the token at most once, and once when
\* a call succeeded; exactly one call succeeds when every failed call failed
\* because the token was spent.
C7_AtMostOneSuccess ==
    \A t \in WalletToks :
        /\ Cardinality(Succeeded(t)) <= 1
        /\ Credited(t) <= 1
        /\ Cardinality(Succeeded(t)) <= Credited(t)
        /\ (AllDone => Cardinality(Succeeded(t)) = Credited(t))
        /\ (AllDone => Succeeded(t) \cup Failed(t) = ReceiveCallsOf(t))
        /\ ( /\ AllDone
             /\ ReachedMint(t) # {}
             /\ \A c \in Failed(t) : call[c].result.error = "Token already spent" )
           => Cardinality(Succeeded(t)) = 1

\* two calls for the same token reached the mint: one succeeded, one was
\* told that the token is spent
C7_Witness ==
    \E t \in WalletToks : \E c1, c2 \in ReceiveCallsOf(t) :
        /\ AllDone
        /\ call[c1].result.success
        /\ call[c2].result.error = "Token already spent"
        /\ Credited(t) = 1

\* C8 as stated: when the first swap attempt fails with a counter conflict
\* the call makes exactly one recovery pass and exactly one retry.
C8_ExactlyOneRecoveryAndRetry ==
    \A c \in Callers :
        ( /\ call[c].op = "receive" /\ call[c].pc = "done"
          /\ Len(call[c].attempts) >= 1
          /\ call[c].attempts[1] = SWAP_CONFLICT )
        => call[c].recoveries = 1 /\ Len(call[c].attempts) = 2

\* C8 amended: a redeem call never makes more than 2 swap attempts nor more
\* than 1 recovery pass; a recovery pass is made exactly when the first
\* attempt failed with a counter conflict; the swap is retried once when that
\* pass succeeded and not at all when it failed; a conflict on the retry ends
\* the call with the counter-sync failure.
C8_BoundedRecovery ==
    \A c \in Callers :
        call[c].op = "receive" =>
            LET a == call[c].attempts IN
            /\ Len(a) <= 2
            /\ call[c].recoveries <= 1
            /\ (call[c].recoveries = 1 => Len(a) >= 1 /\ a[1] = SWAP_CONFLICT)
            /\ (Len(a) = 2 => call[c].recoveries = 1 /\ call[c].is_retry)
            /\ ( (call[c].pc = "done" /\ Len(a) >= 1 /\ a[1] = SWAP_CONFLICT) =>
                   /\ call[c].recoveries = 1
                   /\ Len(a) = (IF call[c].is_retry THEN 2 ELSE 1) )
            /\ ( (call[c].pc = "done" /\ Len(a) = 2 /\ a[2] = SWAP_CONFLICT) =>
                   /\ ~call[c].result.success
                   /\ call[c].result.error = COUNTER_SYNC_ERROR )

\* a call whose first attempt and retry both met a counter conflict
C8_Witness ==
    \E c \in Callers :
        /\ call[c].pc = "done"
        /\ call[c].attempts = <<SWAP_CONFLICT, SWAP_CONFLICT>>
        /\ call[c].recoveries = 1
        /\ call[c].result.error = COUNTER_SYNC_ERROR

\* a call is changing the wallet: receive_token from its swap to its return,
\* generate_token from its selection of proofs to their reservation,
\* payout_to_lightning from its selection of proofs to its return
InMutation(c) ==
    call[c].pc \in {"r_swap", "r_recovery", "r_reload", "g_reserve", "p_melt", "p_reload"}

\* C9: every call that is changing the wallet holds the redemption lock, and
\* so at most one call is changing the wallet at any moment.
C9_MutationsHoldLock ==
    /\ \A c \in Callers : InMutation(c) => redemption_lock = c
    /\ Cardinality({c \in Callers : InMutation(c)}) <= 1

\* C10: no proof is put into two withdrawal tokens, nor into a withdrawal
\* token and a melt.
C10_NoProofSpentTwice ==
    /\ \A i, j \in 1..Len(issued) : i # j => issued[i] \cap issued[j] = {}
    /\ \A i \in 1..Len(issued) : \A k \in 1..Len(melted) : issued[i] \cap melted[k] = {}

\* parsed.mint is set and is not one of the trusted mints
DeclaresUntrustedMint(t) == t.parses /\ t.mint # "" /\ t.mint \notin TrustedMints

\* C11: for a token that declares a mint outside the trusted set,
\* validate_token_format returns false and receive_token returns a failure at
\* once: the call never waits for nor holds the redemption lock and never
\* reaches the mint (no swap attempt, no recovery pass).
C11_UntrustedMintRejectedBeforeLock ==
    \A c \in Callers :
        (call[c].op = "receive" /\ DeclaresUntrustedMint(call[c].token)) =>
            /\ ~BackendValidateTokenFormat(call[c].token)
            /\ call[c].pc = "done"
            /\ ~call[c].result.success
            /\ call[c].attempts = <<>>
            /\ call[c].recoveries = 0
            /\ redemption_lock # c

\* the initialized service refused a well-formed token of another mint while
\* a call for a trusted token was at the mint
C11_Witness ==
    \E c, d \in Callers :
        /\ call[c].op = "receive"
        /\ DeclaresUntrustedMint(call[c].token)
        /\ call[c].pc = "done"
        /\ call[c].result.error = "Invalid token"
        /\ call[d].op = "receive"
        /\ redemption_lock = d

CheckSpentCalls == {c \in Callers : call[c].op = "check_spent" /\ call[c].pc = "done"}

\* C12: check_token_spent answers spent whenever the service is not
\* initialized, the token does not parse, or the state query raised; it
\* answers unspent only when the mint answered and reported none of the
\* token's proofs spent.
C12_CheckSpentFailsClosed ==
    \A c \in CheckSpentCalls :
        /\ (~initialized => call[c].spent)
        /\ (~call[c].token.parses => call[c].spent)
        /\ (call[c].answer.kind = "error" => call[c].spent)
        /\ (~call[c].spent <=>
              /\ call[c].answer.kind = "states"
              /\ \A i \in 1..Len(call[c].answer.states) :
                    call[c].answer.states[i] # "SPENT")

\* one query failed and was answered spent for a token the mint holds
\* unspent; another was answered by the mint and reported unspent
C12_Witness ==
    \E c, d \in CheckSpentCalls :
        /\ call[c].answer.kind = "error"
        /\ call[c].token \notin mintSpent
        /\ call[c].spent
        /\ call[d].answer.kind = "states"
        /\ ~call[d].spent

Withdrawals == {c \in Callers : call[c].op \in {"generate", "sweep"}}
Issuing(c) == call[c].pc = "done" /\ call[c].result.success
Refused(c) == call[c].pc = "done" /\ ~call[c].result.success /\ call[c].send = {}

C14_UnconsumedTokenRefunded ==
    ( /\ a_pc = "__end__"
      /\ CarriesRealToken(a_payment)
      /\ a_payment.ecash_token \notin mintSpent
      /\ \A i \in 1..Len(credits) : credits[i] # a_payment.ecash_token )
    => a_refund

(***************************************************************************)
(* Both graphs: free mode and the debug sentinel.                          *)
(***************************************************************************)
\* the request has no payment payload, or one with an empty ecash_token
FreePayload(p) == ~p.present \/ p.ecash_token \in {NoneTok, EmptyTok}

\* the request carries "debug" or a token that starts with "cashu_debug_"
SentinelPayload(p) == p.present /\ p.ecash_token \in {DebugTok, CashuDebugTok}

\* the validate-then-redeem run passed validate_payment without a token to
\* redeem, goes on to the agent and makes no wallet call
VtrPassesUnpaid ==
    /\ ReceiveCalls(a_log) = 0
    /\ CheckCalls(a_log) = 0
    /\ (a_pc \notin {"__start__", "validate_payment"} =>
            a_validated /\ a_token = NoneTok)
    /\ ((a_pc = "agent" /\ LlmCalls(a_log) = 0) => ~a_refund)
    /\ (a_pc = "__end__" => LlmCalls(a_log) >= 1)

\* the redeem-before-call run r passed validate_payment without redeeming,
\* goes on to the agent and makes no wallet call
RbcPassesUnpaid(r) ==
    /\ ReceiveCalls(s_log[r]) = 0
    /\ CheckCalls(s_log[r]) = 0
    /\ s_pc[r] # "validate_payment.redeem"
    /\ (s_pc[r] \notin {"__start__", "validate_payment"} =>
            s_validated[r] /\ ~s_redeemed[r] /\ ~s_refund[r])
    /\ (s_pc[r] = "__end__" => LlmCalls(s_log[r]) = 1)

\* C15: free mode, both graphs: with no payment payload or an empty
\* ecash_token, validate_payment sets payment_validated = true and refund =
\* false, the run goes on to the agent, and no /check or /receive call is
\* made at any point of the run.
C15_FreeModeTouchesNoWallet ==
    /\ FreePayload(a_payment) => VtrPassesUnpaid
    /\ \A r \in Runs : FreePayload(s_payment[r]) => RbcPassesUnpaid(r)
    /\ FreePayload(a_payment) => credits = <<>>

\* a request with an empty ecash_token went through both graphs to the end
C15_Witness ==
    /\ a_payment.present
    /\ a_payment.ecash_token = EmptyTok
    /\ a_pc = "__end__"
    /\ LlmCalls(a_log) >= 1
    /\ \A r \in Runs : s_pc[r] = "__end__" /\ LlmCalls(s_log[r]) = 1

\* C16: debug sentinel, both graphs: a token equal to "debug" or starting
\* with "cashu_debug_" is accepted (payment_validated = true, refund = false)
\* and the run makes no wallet call; payment_redeemed stays false in the
\* redeem-before-call graph and payment_token is None in the
\* validate-then-redeem graph.
C16_DebugSentinelTouchesNoWallet ==
    /\ SentinelPayload(a_payment) => VtrPassesUnpaid
    /\ \A r \in Runs : SentinelPayload(s_payment[r]) => RbcPassesUnpaid(r)
    /\ SentinelPayload(a_payment) => credits = <<>>

\* a "cashu_debug_" token went through both graphs to the end, with
\* production pricing in force
C16_Witness ==
    /\ a_payment.ecash_token = CashuDebugTok
    /\ ~DEBUG_MODE
    /\ a_pc = "__end__"
    /\ LlmCalls(a_log) >= 1
    /\ \A r \in Runs : s_pc[r] = "__end__" /\ LlmCalls(s_log[r]) = 1 /\ ~s_redeemed[r]

\* C17: redeem-before-call graph: when the LLM call fails after the token
\* was redeemed, no refund is issued: refund = false and refund_token = None
\* from the failure to the end of the run, payment_redeemed stays true, and
\* the failed LLM call is the last thing the run does (no further wallet
\* call).
C17_NoRefundAfterRedeemedLlmFailure ==
    \A r \in Runs :
        ("receive_ok" \in Events(s_log[r]) /\ LlmErrors(s_log[r]) > 0) =>
            /\ ~s_refund[r]
            /\ s_refund_token[r] = NoneTok
            /\ s_redeemed[r]
            /\ IsLlmError(Last(s_log[r]))
            /\ ReceiveCalls(s_log[r]) = 1
            /\ CheckCalls(s_log[r]) = 1
            /\ s_pc[r] \in {"finalize", "__end__"}

\* a run redeemed its token, the LLM call failed, and the run ended
C17_Witness ==
    \E r \in Runs :
        /\ s_pc[r] = "__end__"
        /\ s_log[r] = << <<"validate_payment", "check_ok">>,
                         <<"validate_payment", "receive_ok">>,
                         <<"agent", "llm_error">> >>
        /\ s_payment[r].ecash_token \in mintSpent

\* C18: validate-then-redeem graph: finalize leaves the message history as
\* it is and ends the run, also when its redemption fails after the LLM
\* answered: the failed /receive call is the only one of the run (no retry),
\* and nothing changes once the run has ended.
C18_FailedRedemptionKeepsAnswer ==
    [][ /\ a_pc = "finalize" =>
            /\ a_messages' = a_messages
            /\ a_pc' = "__end__"
            /\ Len(a_log') <= Len(a_log) + 1
            /\ ReceiveCalls(a_log') <= 1
            /\ <<a_payment, a_validated, a_token>>' = <<a_payment, a_validated, a_token>>
        /\ a_pc = "__end__" => UNCHANGED vtrVars ]_vars

\* the LLM answered, the redemption in finalize failed, and the run ended
\* with the answer as its last message
C18_Witness ==
    /\ a_pc = "__end__"
    /\ <<"agent", "llm_ok">> \in {a_log[i] : i \in 1..Len(a_log)}
    /\ LlmErrors(a_log) = 0
    /\ Last(a_log) = <<"finalize", "receive_failed">>
    /\ ReceiveCalls(a_log) = 1
    /\ Last(a_messages) = AI_FINAL

(***************************************************************************)
(* NIP-98 verification: properties.                                        *)
(***************************************************************************)
\* the checks in the order scheme prefix, decode, kind, id and signature,
\* expiry, future timestamp, URL tag, method tag, payload hash, allowlist
CheckNames == << "scheme", "decode", "kind", "signature", "expiry", "future",
                 "url", "method", "payload", "allowlist" >>

\* the errors a check reports
ErrorsOf(name) ==
    CASE name = "scheme" -> {"Invalid auth header format"}
      [] name = "decode" -> {"Failed to decode event"}
      [] name = "kind" -> {"Invalid event kind"}
      [] name = "signature" -> {"Invalid event signature"}
      [] name = "expiry" -> {"Event expired"}
      [] name = "future" -> {"Event from the future"}
      [] name = "url" -> {"Missing 'u' tag", "URL mismatch"}
      [] name = "method" -> {"Missing 'method' tag", "Method mismatch"}
      [] name = "payload" -> {"Payload hash mismatch"}
      [] name = "allowlist" -> {"Pubkey not authorized"}

\* the request at hand does not pass the named check, taken on its own
CheckFails(name) ==
    LET ev == n_auth_header.event IN
    CASE name = "scheme" -> n_auth_header.shape = "no_scheme"
      [] name = "decode" -> n_auth_header.shape = "undecodable"
      [] name = "kind" -> n_auth_header.shape = "event" /\ ev.kind # NIP98_KIND
      [] name = "signature" -> ev.auth # "ok"
      [] name = "expiry" ->
            ev.created_at.number /\ n_current_time - ev.created_at.value > 60
      [] name = "future" ->
            ev.created_at.number /\ ev.created_at.value - n_current_time > 60
      [] name = "url" ->
            \/ ev.tags.u.kind = "absent"
            \/ /\ ev.tags.u.kind = "str"
               /\ ev.tags.u.val.base # n_url.base
      [] name = "method" ->
            \/ ev.tags.method.kind = "absent"
            \/ /\ ev.tags.method.kind = "str"
               /\ Upper(ev.tags.method.val) # n_method
      [] name = "payload" ->
            /\ n_body # ""
            /\ ev.tags.payload.kind = "str"
            /\ ev.tags.payload.val # ""
            /\ ev.tags.payload.val # Sha256Hex(n_body)
      [] name = "allowlist" ->
            /\ n_allowed_pubkeys # <<>>
            /\ \A i \in 1..Len(n_allowed_pubkeys) :
                  n_allowed_pubkeys[i].hex # ev.pubkey

\* the named check cannot be evaluated on the request at hand: the value it
\* needs has the wrong JSON type
CheckRaises(name) ==
    LET ev == n_auth_header.event IN
    CASE name = "kind" -> n_auth_header.shape = "json_not_object"
      [] name = "expiry" -> ~ev.created_at.number
      [] name = "url" -> ev.tags.u.kind = "other"
      [] name = "method" -> ev.tags.method.kind = "other"
      [] OTHER -> FALSE

NotPassing == { i \in 1..Len(CheckNames) :
                  CheckFails(CheckNames[i]) \/ CheckRaises(CheckNames[i]) }

\* the earliest check that does not pass, 0 when all pass
FirstNotPassing ==
    IF NotPassing = {} THEN 0
    ELSE CHOOSE i \in NotPassing : \A j \in NotPassing : i <= j

\* C19: verify_nip98_event evaluates its checks in the order scheme prefix,
\* decode, kind, id and signature, expiry, future timestamp, URL tag, method
\* tag, payload hash, allowlist: it returns valid = true only if every check
\* passes, and otherwise the outcome is that of the earliest check that does
\* not pass; the call ends in one outcome and that outcome stays.
C19_EarliestFailingCheckReported ==
    n_result # NoResult =>
        /\ n_result.valid <=> FirstNotPassing = 0
        /\ n_result.valid => (n_result.error = "" /\ ~n_result.raised
                              /\ n_result.pubkey = n_auth_header.event.pubkey)
        /\ (~n_result.valid /\ ~n_result.raised) =>
              /\ FirstNotPassing # 0
              /\ CheckFails(CheckNames[FirstNotPassing])
              /\ n_result.error \in ErrorsOf(CheckNames[FirstNotPassing])
        /\ n_result.raised =>
              /\ FirstNotPassing # 0
              /\ CheckRaises(CheckNames[FirstNotPassing])

\* an event with a good signature that is expired, signed for another URL
\* and another method, and by a key that is not allowed, was reported as
\* expired
C19_Witness ==
    /\ n_result.error = "Event expired"
    /\ n_auth_header.event.auth = "ok"
    /\ CheckFails("url")
    /\ CheckFails("method")
    /\ CheckFails("allowlist")

\* every check other than the two on created_at passes on the request at hand
OtherwiseValid ==
    /\ n_auth_header.event.created_at.number
    /\ \A i \in 1..Len(CheckNames) :
          CheckNames[i] \notin {"expiry", "future"} =>
              ~CheckFails(CheckNames[i]) /\ ~CheckRaises(CheckNames[i])

\* seconds between created_at and the clock, negative for an event of the
\* future
Age == n_current_time - n_auth_header.event.created_at.value

\* C20: with the default expiry of 60 seconds an otherwise valid event is
\* rejected as expired iff now - created_at > 60 (61 seconds old: rejected,
\* 60 seconds old: accepted) and rejected as from the future iff
\* created_at > now + 60.
C20_FreshnessWindow ==
    (n_result # NoResult /\ OtherwiseValid) =>
        /\ n_result.error = "Event expired" <=> Age > 60
        /\ n_result.error = "Event from the future" <=> Age < -60
        /\ n_result.valid <=> (Age <= 60 /\ Age >= -60)
        /\ Age = 61 => ~n_result.valid
        /\ Age = 60 => n_result.valid

\* an otherwise valid event exactly 60 seconds old was accepted
C20_Witness ==
    /\ n_result.valid
    /\ OtherwiseValid
    /\ Age = 60
    /\ n_allowed_pubkeys # <<>>


\* the checks before the URL check pass on the request at hand, and the
\* event carries a u tag that is a non-empty string
UrlCheckReached ==
    /\ n_auth_header.shape = "event"
    /\ \A i \in 1..6 : ~CheckFails(CheckNames[i]) /\ ~CheckRaises(CheckNames[i])
    /\ n_auth_header.event.tags.u.kind = "str"

\* the checks after the URL check pass on the request at hand
AfterUrlPasses ==
    \A i \in 8..Len(CheckNames) :
        ~CheckFails(CheckNames[i]) /\ ~CheckRaises(CheckNames[i])

\* C21 as stated: the u tag and the request URL are each normalized by
\* stripping one trailing slash, and a URL mismatch is reported exactly when
\* the two normalized strings differ.
C21_OneTrailingSlashStripped ==
    (n_result # NoResult /\ UrlCheckReached) =>
        (n_result.error = "URL mismatch" <=>
            RstripOne(n_auth_header.event.tags.u.val) # RstripOne(n_url))

\* C21 (amended): the u tag and the request URL are compared with all their
\* trailing slashes ignored: URLs that differ only in trailing slashes (by
\* one or by more) match, any other difference yields a URL mismatch, and an
\* event that passes every other check is accepted iff the URLs match.
C21_TrailingSlashesIgnored ==
    (n_result # NoResult /\ UrlCheckReached) =>
        /\ n_result.error = "URL mismatch" <=>
              n_auth_header.event.tags.u.val.base # n_url.base
        /\ AfterUrlPasses =>
              (n_result.valid <=> n_auth_header.event.tags.u.val.base = n_url.base)

\* an event signed for the URL with one more trailing slash than the request
\* URL has was accepted
C21_Witness ==
    /\ n_result.valid
    /\ UrlCheckReached
    /\ n_auth_header.event.tags.u.val.slashes = n_url.slashes + 1

\* the checks before the payload check pass on the request at hand
PayloadCheckReached ==
    /\ n_auth_header.shape = "event"
    /\ \A i \in 1..8 : ~CheckFails(CheckNames[i]) /\ ~CheckRaises(CheckNames[i])

\* the event declares a payload tag: get_tag_value finds a value for it
DeclaresPayload ==
    /\ n_auth_header.event.tags.payload.kind = "str"
    /\ n_auth_header.event.tags.payload.val # ""

AllowlistCheckReached ==
    /\ n_auth_header.shape = "event"
    /\ \A i \in 1..9 : ~CheckFails(CheckNames[i]) /\ ~CheckRaises(CheckNames[i])

\* the entry is raw hex, or an npub that decodes
Decodes(entry) == ~entry.npub \/ entry.hex # ""

\* C23: when a pubkey allowlist is supplied, the event is accepted only if
\* its pubkey is the hex of an entry of the list that is raw hex or an npub
\* that decodes (undecodable entries count for nothing), and is otherwise
\* rejected as not authorized; an allowlist whose entries all fail to decode
\* authorizes nobody.
C23_AllowlistMembership ==
    (n_result # NoResult /\ AllowlistCheckReached /\ n_allowed_pubkeys # <<>>) =>
        LET member == \E i \in 1..Len(n_allowed_pubkeys) :
                          /\ Decodes(n_allowed_pubkeys[i])
                          /\ n_allowed_pubkeys[i].hex = n_auth_header.event.pubkey
        IN /\ n_result.valid <=> member
           /\ ~member => n_result.error = "Pubkey not authorized"
           /\ (\A i \in 1..Len(n_allowed_pubkeys) : ~Decodes(n_allowed_pubkeys[i]))
                 => ~n_result.valid

\* an event that passes every other check was rejected against an allowlist
\* whose only entry is an npub that does not decode
C23_Witness ==
    /\ n_result.error = "Pubkey not authorized"
    /\ AllowlistCheckReached
    /\ n_allowed_pubkeys = <<NpubEntry("")>>

(***************************************************************************)
(* Pricing: properties.                                                    *)
(***************************************************************************)
\* the message being paid for is the first of its conversation
FirstTurn == Cardinality({i \in 1..Len(p_messages) : p_messages[i] = HUMAN}) <= 1

\* C24: with debug mode on get_required_amount returns the fixed debug cost
\* (1) for every agent id and every turn, whatever the table holds; with
\* debug mode off it returns the table's first value for a first message and
\* its additional value for a follow-up, and 50 and 10 for an agent id the
\* table does not hold.
C24_RequiredAmount ==
    p_required # -1 =>
        /\ DEBUG_MODE => p_required = 1
        /\ (~DEBUG_MODE /\ p_agent_id \in DOMAIN AGENT_PRICING) =>
              p_required = IF FirstTurn THEN AGENT_PRICING[p_agent_id].first
                           ELSE AGENT_PRICING[p_agent_id].additional
        /\ (~DEBUG_MODE /\ p_agent_id \notin DOMAIN AGENT_PRICING) =>
              p_required = IF FirstTurn THEN 50 ELSE 10
        /\ (~DEBUG_MODE /\ p_agent_id = "deep_research" /\ ~FirstTurn) =>
              p_required = 200

\* with debug mode on, a follow-up to an agent whose table entry is 200 was
\* priced at 1
C24_Witness ==
    /\ DEBUG_MODE
    /\ p_agent_id = "deep_research"
    /\ ~FirstTurn
    /\ p_required = 1

(***************************************************************************)
(* Payout scheduler: properties.                                           *)
(***************************************************************************)
\* C25: a cycle begins where the loop's sleep ends and reads the balance
\* there; it attempts a payout iff balance >= threshold, and the amount it
\* requests is the full balance read in that cycle; when balance < threshold
\* the cycle makes no payout call and no network call: it leaves the calls,
\* the lock, the wallet and the mint as they are.
C25_CycleSleepsReadsThenPays ==
    [][ t_log' # t_log =>
          LET cycle == Last(t_log') IN
          /\ AtSleep
          /\ Len(t_log') = Len(t_log) + 1
          /\ cycle.kind # "error" =>
                /\ cycle.balance = ServiceBalance
                /\ cycle.kind = "payout" <=> ServiceBalance >= t_threshold
                /\ cycle.kind = "skip" <=> ServiceBalance < t_threshold
          /\ cycle.kind = "payout" =>
                /\ call'[SCHED].op = "payout"
                /\ call'[SCHED].amount = ServiceBalance
                /\ call'[SCHED].pc \in {"p_lock", "done"}
          /\ cycle.kind = "skip" =>
                UNCHANGED <<call, redemption_lock, melted, mintSpent, proofs>>
      ]_vars

\* a cycle found the balance equal to the threshold and asked for a payout
\* of all of it
C25_Witness ==
    /\ t_log # <<>>
    /\ Last(t_log).kind = "payout"
    /\ Last(t_log).balance = t_threshold
    /\ call[SCHED].op = "payout"
    /\ call[SCHED].amount = t_threshold

\* C26: after a payout attempt that returned a failure, and after an
\* exception of the loop's body, the loop is back in its sleep and its next
\* cycle can run; the loop has ended only if it was cancelled.
C26_FailuresDoNotEndLoop ==
    /\ t_task = "ended" => t_cancelled_at # ""
    /\ (/\ t_cancelled_at = ""
        /\ t_log # <<>>
        /\ call[SCHED].pc \in {"idle", "done"}
        /\ LastCycle \in {"failure", "error"}) =>
            /\ t_task = "running"
            /\ Len(t_log) < MaxCycles => ENABLED SchedCycle

\* a cycle ran after the payout of the cycle before had failed, and asked
\* for a payout again
C26_Witness ==
    /\ Len(t_log) >= 2
    /\ Last(t_log).after = "failure"
    /\ Last(t_log).kind = "payout"
    /\ t_task = "running"

\* C27: no in-flight melt is abandoned by the cancellation: when the loop
\* has stopped, a payout that has selected proofs under the redemption lock
\* has run to the end of the melt and the wallet reload, and once
\* stop_payout_task has returned the scheduler does not hold the redemption
\* lock.
C27_NoMeltAbandoned ==
    t_task = "ended" =>
        /\ call[SCHED].send # {} => call[SCHED].pc = "done"
        /\ redemption_lock # SCHED

(***************************************************************************)
(* Payout negotiation: properties.                                         *)
(***************************************************************************)
\* max(ceil(A * 1%), 2): the least f >= 2 with 100 * f >= A
ExpectedFee(A) ==
    CHOOSE f \in 2..(A + 2) : 100 * f >= A /\ (f > 2 => 100 * (f - 1) < A)

\* payout calls that passed the balance checks of payout_to_lightning
Negotiating ==
    { c \in Callers : /\ call[c].op = "payout"
                      /\ call[c].amount > 0
                      /\ call[c].result.error \notin {"No funds to payout",
                            "Insufficient balance", "Service not initialized"} }

\* C28: for a requested amount A the estimated fee is max(ceil(A * 1%), 2)
\* and the net payable is A - fee; the payout fails without requesting an
\* invoice when A <= fee, or when net * 1000 is below the payee's min
\* sendable or above its max sendable; otherwise the invoice is requested
\* for exactly net * 1000 milli-units.
C28_PayoutNegotiation ==
    \A c \in Negotiating :
        LET A == call[c].amount
            fee == ExpectedFee(A)
            net == A - fee
            limits == call[c].pay_data
        IN /\ A <= fee =>
                /\ call[c].pc = "done" /\ ~call[c].result.success
                /\ call[c].invoice_msat = -1
           /\ A > fee => call[c].net = net
           /\ (limits # NoPayData /\ (net * 1000 < limits.min_sendable
                                        \/ net * 1000 > limits.max_sendable)) =>
                /\ call[c].pc = "done" /\ ~call[c].result.success
                /\ call[c].invoice_msat = -1
           /\ (limits # NoPayData /\ net * 1000 >= limits.min_sendable
                                   /\ net * 1000 <= limits.max_sendable) =>
                call[c].invoice_msat = net * 1000
           /\ limits = NoPayData => call[c].invoice_msat = -1

\* a payout of 201 sats asked for an invoice of 198000 milli-units
C28_Witness ==
    \E c \in Callers :
        /\ call[c].op = "payout"
        /\ call[c].amount = 201
        /\ call[c].invoice_msat = 198000

(***************************************************************************)
(* Backend application: properties.                                        *)
(***************************************************************************)
\* the mnemonic is missing or not of 12 or 24 words, or no admin identity is
\* configured
FatalConfiguration == m_words \notin {12, 24} \/ m_admins = <<>>

\* C29: with a fatal configuration error the process exits during startup:
\* it gets no further than the exit, the wallet service is never
\* initialized, the payout scheduler is never started and no request is
\* served.
C29_FatalConfigurationAbortsStartup ==
    FatalConfiguration =>
        /\ m_phase \in {"starting", "exited"}
        /\ ~initialized
        /\ t_task = "none"
        /\ \A c \in Callers : h_req[c] = NoRequest /\ call[c] = NewCall

\* the process has exited on a mnemonic of 11 words, with an admin
\* configured
C29_Witness ==
    /\ m_phase = "exited"
    /\ m_words = 11
    /\ m_admins # <<>>
    /\ ~initialized

\* the pubkey is the hex of an entry of ADMIN_NPUBS that is raw hex or an
\* npub that decodes
ConfiguredAdmin(pubkey) ==
    \E i \in 1..Len(m_admins) : Decodes(m_admins[i]) /\ m_admins[i].hex = pubkey

\* the wallet operations of the admin routes
AdminOps == {"stats", "generate", "sweep", "payout"}

\* C30: on /admin/stats, /admin/withdraw, /admin/sweep and /admin/payout the
\* wallet operation is executed only after verify_admin_auth succeeded for
\* that request with a pubkey in the configured admin allowlist; a request
\* that is rejected (missing header, empty allowlist, a failed verification
\* step) starts no wallet operation and leaves the wallet state unchanged.
C30_AdminGating ==
    /\ [](\A c \in Callers :
            /\ call[c].op \in AdminOps =>
                  /\ h_req[c].status = 200
                  /\ m_admins # <<>>
                  /\ ConfiguredAdmin(h_req[c].pubkey)
            /\ (h_req[c] # NoRequest /\ h_req[c].status # 200) => call[c] = NewCall)
    /\ [][ \A c \in Callers :
             (h_req'[c] # h_req[c] /\ h_req'[c].status # 200) =>
                 UNCHANGED <<envVars, walletVars>> ]_vars

\* a withdrawal request was rejected with 401 and started nothing,
\* while a sweep request was verified and swept the wallet
C30_Witness ==
    \E c, k \in Callers :
        /\ h_req[c].endpoint = "withdraw"
        /\ h_req[c].status = 401
        /\ call[c] = NewCall
        /\ h_req[k].endpoint = "sweep"
        /\ h_req[k].status = 200
        /\ call[k].op = "sweep"
        /\ call[k].result.success


(***************************************************************************)
(* C31: non-conflict redemption failures are terminal                      *)
(***************************************************************************)
\* what _redeem_token_internal sees of a swap: a lost answer is a transport error
SeenError(outcome) == IF outcome = "lost" THEN SWAP_TRANSPORT ELSE outcome

\* the i-th swap of call c failed with an error outside the conflict class
NonConflictFailure(c, i) ==
    /\ call[c].attempts[i] # "ok"
    /\ ~ContainsAlreadySigned(SeenError(call[c].attempts[i]))

\* C31: when a swap of receive_token fails with an error that is not a
\* counter conflict (spent, invalid, transport, a lost answer), that swap is
\* the call's last one, no recovery pass follows it and the call has ended
\* with a failure; when it is the call's first swap, the call made exactly
\* one swap attempt and ran no recovery at all
C31_NonConflictFailureIsTerminal ==
    \A c \in Callers :
        call[c].op = "receive" =>
            \A i \in 1..Len(call[c].attempts) :
                NonConflictFailure(c, i) =>
                    /\ i = Len(call[c].attempts)
                    /\ call[c].pc = "done"
                    /\ ~call[c].result.success
                    /\ call[c].result.error # COUNTER_SYNC_ERROR
                    /\ call[c].recoveries = i - 1
                    /\ redemption_lock # c

\* one call redeemed a token, and a second call's first swap of the same
\* token failed with the spent error: it ended after that one swap, without
\* a recovery, with the spent failure
C31_Witness ==
    \E c, d \in Callers :
        /\ call[d].op = "receive" /\ call[d].result.success
        /\ call[c].op = "receive" /\ call[c].token = call[d].token
        /\ call[c].attempts = <<SWAP_SPENT>>
        /\ call[c].pc = "done" /\ call[c].recoveries = 0
        /\ call[c].result = TokenResult(FALSE, 0, "Token already spent")


(***************************************************************************)
(* C32: a failed recovery pass ends the call                               *)
(***************************************************************************)
\* C32: when the recovery pass of a receive_token fails (no active keyset,
\* or the restore raises), the call has ended with the counter-sync failure
\* after exactly one swap attempt and holds the lock no more; a call is
\* retrying, or has swapped more than once, only after a recovery pass that
\* succeeded
C32_FailedRecoveryIsTerminal ==
    \A c \in Callers :
        call[c].op = "receive" =>
            /\ \A i \in 1..Len(call[c].recovered) :
                   call[c].recovered[i] # "restored" =>
                       /\ i = Len(call[c].recovered)
                       /\ Len(call[c].attempts) = 1
                       /\ call[c].pc = "done"
                       /\ call[c].result = TokenResult(FALSE, 0, COUNTER_SYNC_ERROR)
                       /\ redemption_lock # c
            /\ (call[c].is_retry \/ Len(call[c].attempts) > 1) =>
                   call[c].recovered = <<"restored">>

\* one call ended after a restore that raised, another after a recovery that
\* found no active keyset, each after its one conflicting swap
C32_Witness ==
    \E c, d \in Callers :
        /\ call[c].op = "receive" /\ call[c].recovered = <<"raised">>
        /\ call[c].attempts = <<SWAP_CONFLICT>> /\ call[c].pc = "done"
        /\ call[d].op = "receive" /\ call[d].recovered = <<"no_keyset">>
        /\ call[d].attempts = <<SWAP_CONFLICT>> /\ call[d].pc = "done"


(***************************************************************************)
(* C33: verify_nip98_event always ends in a typed result                   *)
(***************************************************************************)
\* the header carries the scheme prefix, and its payload does not decode, or
\* decodes to JSON that is no event object, or to an event whose created_at
\* is no integer
MalformedEvent ==
    \/ n_auth_header.shape \in {"undecodable", "json_not_object"}
    \/ n_auth_header.shape = "event" /\ ~n_auth_header.event.created_at.number

\* C33: a call of verify_nip98_event never raises, and for a header with the
\* scheme prefix whose payload is malformed it returns
\* AuthResult(valid=False) with an error
C33_AlwaysTypedResult ==
    n_result # NoResult =>
        /\ ~n_result.raised
        /\ MalformedEvent => ~n_result.valid /\ n_result.error # ""


(***************************************************************************)
(* C34: the payout re-validates under the lock                             *)
(***************************************************************************)
InLockedSection(c) == call[c].pc \in {"p_negotiate", "p_select", "p_melt", "p_reload"}

\* the call got a melt quote and compared it with the balance
ReachedBalanceCheck(c) ==
    call[c].needed > 0 /\ call[c].pc \in {"p_melt", "p_reload", "done"}

\* C34: a payout holds the redemption lock from the LNURL negotiation to the
\* reload; having got the melt quote it compares quote amount + fee reserve
\* with the balance it reads then, and when the balance is short it fails
\* with no proofs selected and no melt; when it succeeds it reports the net
\* amount as sent and (value of the selected proofs - net amount) as fee, and
\* the two together do not exceed the balance read at the selection
C34_PayoutRevalidatesUnderLock ==
    \A c \in Callers :
        call[c].op = "payout" =>
            /\ InLockedSection(c) => redemption_lock = c
            /\ (ReachedBalanceCheck(c) /\ call[c].needed > call[c].before) =>
                   /\ call[c].pc = "done"
                   /\ ~call[c].result.success
                   /\ call[c].send = {}
                   /\ \A i \in 1..Len(melted) : melted[i] \cap call[c].send = {}
            /\ call[c].send # {} => call[c].needed <= call[c].before
            /\ (call[c].pc = "done" /\ call[c].result.success) =>
                   /\ call[c].send # {}
                   /\ call[c].result.amount = call[c].net
                   /\ call[c].result.fee_paid = SendValue(call[c].send) - call[c].net
                   /\ call[c].result.amount + call[c].result.fee_paid <= call[c].before

\* two payouts of the full balance were started; the first one paid, with a
\* fee above the quote's reserve, and the second found the balance short at
\* its check under the lock and failed without selecting proofs
C34_Witness ==
    \E c, d \in Callers :
        /\ call[c].op = "payout" /\ call[c].pc = "done" /\ call[c].result.success
        /\ call[c].result.fee_paid > call[c].needed - call[c].net
        /\ call[d].op = "payout" /\ call[d].pc = "done" /\ ReachedBalanceCheck(d)
        /\ call[d].needed > call[d].before
        /\ call[d].send = {} /\ ~call[d].result.success


(***************************************************************************)
(* C35: the transition relation of the two graphs                          *)
(***************************************************************************)
\* the node a position belongs to: validate_payment_node is one node, split
\* in the model at its request to the wallet
NodeOf(pc) == IF pc = "validate_payment.redeem" THEN "validate_payment" ELSE pc

PendingToolCalls(messages) == messages # <<>> /\ HasToolCalls(Last(messages))

\* the step of the tool-enabled graph follows one of its edges
VtrEdgeTaken ==
    \/ a_pc = "__start__" /\ a_pc' = "validate_payment"
    \/ a_pc = "validate_payment" /\ a_pc' = "agent" /\ a_validated'
    \/ a_pc = "validate_payment" /\ a_pc' = "__end__" /\ ~a_validated'
    \/ /\ a_pc = "agent" /\ a_pc' = "tools"
       /\ PendingToolCalls(a_messages') /\ a_interrupted'
    \/ /\ a_pc = "agent" /\ a_pc' = "finalize"
       /\ ~PendingToolCalls(a_messages') /\ ~a_interrupted'
    \/ a_pc = "tools" /\ a_pc' = "agent" /\ ~a_interrupted
    \/ a_pc = "finalize" /\ a_pc' = "__end__"

\* the step of run r of the graph without tools follows one of its edges
RbcEdgeTaken(r) ==
    LET from == NodeOf(s_pc[r])
        to == NodeOf(s_pc'[r])
    IN \/ from = "__start__" /\ to = "validate_payment"
       \/ from = "validate_payment" /\ to = "agent" /\ s_validated'[r]
       \/ from = "validate_payment" /\ to = "__end__" /\ ~s_validated'[r]
       \/ from = "agent" /\ to = "finalize"
       \/ from = "finalize" /\ to = "__end__"

\* C35: every change of node follows an edge of the graph: start ->
\* validate_payment; validate_payment -> agent when payment_validated is true
\* and -> end when it is false; agent -> tools when the last message has tool
\* calls (tool-enabled graph only) and -> finalize otherwise; tools -> agent;
\* finalize -> end.  The tool-enabled graph is paused whenever it enters
\* tools, only a resume ends the pause and the tools node runs only in a
\* resumed graph; no graph is at finalize while the last message has pending
\* tool calls
C35_TransitionRelation ==
    /\ [][ /\ a_pc' # a_pc => VtrEdgeTaken
           /\ (a_interrupted /\ ~a_interrupted') => UNCHANGED a_pc
           /\ \A r \in Runs :
                 NodeOf(s_pc'[r]) # NodeOf(s_pc[r]) => RbcEdgeTaken(r) ]_vars
    /\ [] /\ a_interrupted => a_pc = "tools"
          /\ a_pc = "finalize" => ~PendingToolCalls(a_messages)
          /\ \A r \in Runs : /\ s_pc[r] # "tools"
                             /\ s_pc[r] = "finalize" => ~PendingToolCalls(s_messages[r])

\* the tool-enabled run went through tools twice, each time after a resume,
\* and ended after finalize; one run of the other graph ended at
\* validate_payment and another one after finalize
C35_Witness ==
    /\ a_pc = "__end__" /\ a_validated
    /\ Len(SelectSeq(a_messages, LAMBDA m : m = TOOL)) = 2
    /\ \E r, q \in Runs :
          /\ s_pc[r] = "__end__" /\ ~s_validated[r]
          /\ s_pc[q] = "__end__" /\ s_validated[q]


(***************************************************************************)
(* C36: concurrent runs with the same token                                *)
(***************************************************************************)
\* the runs that invoked the LLM
LlmRuns == {r \in Runs : LlmCalls(s_log[r]) > 0}

InValidatePayment(r) == NodeOf(s_pc[r]) \in {"__start__", "validate_payment"}

\* C36: when the runs submitted at once carry the same real token, at most
\* one of them invokes the LLM, whatever the /check step told the others;
\* every other run, once it has left validate_payment, has ended there with
\* payment_validated = false and never reaches the agent
C36_OneRunPerToken ==
    (\A r \in Runs : CarriesRealToken(s_payment[r])) =>
        /\ Cardinality(LlmRuns) <= 1
        /\ \A r \in Runs :
              \A q \in Runs \ {r} :
                 (LlmCalls(s_log[q]) > 0 \/ s_redeemed[q]) =>
                     /\ LlmCalls(s_log[r]) = 0
                     /\ ~s_redeemed[r]
                     /\ ~InValidatePayment(r) =>
                            s_pc[r] = "__end__" /\ ~s_validated[r]

\* two runs passed /check with the same token while it was unspent; one
\* redeemed it and invoked the LLM, the other one failed to redeem and ended
\* at validate_payment
C36_Witness ==
    \E r, q \in Runs :
        /\ r # q
        /\ CarriesRealToken(s_payment[r])
        /\ Len(s_log[r]) >= 3 /\ Len(s_log[q]) = 2
        /\ s_log[r][1][2] = "check_ok" /\ s_log[q][1][2] = "check_ok"
        /\ s_log[q][2][2] = "receive_failed"
        /\ s_pc[q] = "__end__" /\ ~s_validated[q]
        /\ LlmCalls(s_log[r]) = 1 /\ s_redeemed[r]


(***************************************************************************)
(* C37: the token a run hands back has not been consumed                   *)
(***************************************************************************)
\* C37: refund_token is set only to the token the run was given, and only
\* while the wallet has not redeemed that token: a token handed back as
\* refund_token is never among the tokens credited to the wallet, at the time
\* it is handed back or later
C37_RefundedTokenNotConsumed ==
    \A r \in Runs :
        Truthy(s_refund_token[r]) =>
            /\ s_refund_token[r] = s_payment[r].ecash_token
            /\ Credited(s_refund_token[r]) = 0


(***************************************************************************)
(* C38: the redemption lock                                                *)
(***************************************************************************)
\* the call is between its swap at the mint and the end of its reload
InRedeemSection(c) == call[c].pc \in {"r_swap", "r_recovery", "r_reload"}

WaitsForLock(c) == call[c].pc \in {"r_lock", "p_lock"}

\* the call has left the locked section, or has not entered it
OutsideLock(c) == call[c].pc \in {"idle", "r_lock", "p_lock", "done", "cancelled"}

\* C38: a receive_token call and a payout, of the loop or of an
\* administrator, are never both between their request to the mint and
\* their reload; a call in that section holds the redemption lock, and a call
\* that has left it by a result, a failure, an exception or the loop's
\* cancellation holds it no more; and, every mint and payee request
\* returning, a call that waits for the lock gets it (unless it is the
\* loop's payout and the loop is cancelled while it waits)
C38_LockExcludesAndIsReleased ==
    /\ [] \A c \in Callers :
            /\ (InRedeemSection(c) \/ InLockedSection(c)) => redemption_lock = c
            /\ OutsideLock(c) => redemption_lock # c
            /\ \A d \in Callers \ {c} :
                  ~(InRedeemSection(c) /\ InLockedSection(d))
    /\ \A c \in Callers :
          WaitsForLock(c) ~> (redemption_lock = c \/ call[c].pc = "cancelled")

\* a redemption waits for the lock while an administrator's payout holds it
\* in its melt
C38_Witness ==
    \E c, d \in Callers :
        /\ t_task = "none"
        /\ call[c].op = "receive" /\ call[c].pc = "r_lock"
        /\ call[d].op = "payout" /\ call[d].pc = "p_melt" /\ redemption_lock = d


(***************************************************************************)
(* C39: at most one payout loop                                            *)
(***************************************************************************)
\* C39: whatever start_payout_task and stop_payout_task calls were made one
\* after the other, at most one payout loop is alive, and a loop is alive
\* only while the handle is set, to that loop; a start without a payout
\* address or with a task in place creates no task; a stop that has returned
\* has cancelled the task, seen it end and cleared the handle
C39_AtMostOnePayoutLoop ==
    /\ Cardinality(k_loops) <= 1
    /\ k_loops # {} => k_loops = {k_payout_task}
    /\ ~m_ln_address => k_loops = {} /\ k_payout_task = 0
    /\ Cardinality({i \in 1..Len(k_log) : k_log[i].did = "created"})
          - Cardinality({i \in 1..Len(k_log) : k_log[i].did = "stopped"})
          = Cardinality(k_loops \ k_cancel) + (IF k_stop_pc = "await" THEN 1 ELSE 0)
    /\ (k_log # <<>> /\ Last(k_log).name = "stop" /\ k_stop_pc = "idle") =>
           k_payout_task = 0 /\ k_loops = {}

\* a task was created, a second start found it and created none, a stop
\* ended it, and a start after the stop created the one loop that is alive
C39_Witness ==
    /\ Len(k_log) = 4
    /\ k_log[1].did = "created" /\ k_log[2].did = "already_running"
    /\ k_log[3].did = "stopped" /\ k_log[4].did = "created"
    /\ k_loops = {k_payout_task} /\ k_payout_task = 4


(***************************************************************************)
(* C40: verification keeps no memory                                       *)
(***************************************************************************)
\* the presentations of the request made so far: the earlier ones and the last
Presentations ==
    IF n_result = NoResult THEN n_seen
    ELSE Append(n_seen, [time |-> n_current_time, result |-> n_result])

\* the event is neither expired nor from the future at time t
InFreshnessWindow(t) ==
    /\ n_auth_header.event.created_at.number
    /\ ~IsExpired(t, n_auth_header.event.created_at.value, DEFAULT_EXPIRY_SECONDS)
    /\ ~IsFromFuture(t, n_auth_header.event.created_at.value)

=============================================================================
